---- MODULE Spec2Model ----
(***************************************************************************)
(* Query-answering core of the sensor-monitoring assistant                 *)
(* (grandbelly/reflex-water-app, src/water_app/ai_engine).                 *)
(*                                                                         *)
(* The module holds several specifications over one set of variables; each *)
(* one drives its own group of variables and leaves the others alone:      *)
(*   SpecAudit   AuditAgent._calculate_overall_score / _assign_grade       *)
(*   SpecLearn   ReinforcementLearningSystem.evaluate_and_learn, several   *)
(*               coroutines on one asyncio event loop                      *)
(*   SpecPipeline  one process_query run of either orchestrator, with the  *)
(*               audit after each stage                                    *)
(*   SpecQC      the three gradings of a reading against its QC rule       *)
(*   SpecAnswer  validation of a generated answer before it is returned    *)
(*   SpecRespond the try/except structure of the outermost calls           *)
(*   SpecTranslate  DynamicRAGEngine: question to query text to answer     *)
(*   SpecGaps    RealDataAuditSystem: expected and missing minutes, grade  *)
(*   SpecFormat  FiveW1HAgent: the six fields of one context               *)
(*   SpecHallucination  HallucinationPrevention.validate_response          *)
(*   SpecChat    AIState.send_message handlers on one state                *)
(*                                                                         *)
(* Fixed-point representation of the floats of the source:                 *)
(*   sub-scores in [0,1]          unit 1/10000   (SubOne = 10000)          *)
(*   overall score in [0,100]     unit 1/10      (MaxOverall = 1000)       *)
(*   learning rate, multiplier    unit 1/1000000 (0.1 = 100000)            *)
(*   trend, adaptation, consistency  unit 1/10000                          *)
(* Divisions round towards minus infinity (\div).                          *)
(***************************************************************************)
EXTENDS Integers, Sequences, FiniteSets, TLC

VARIABLES
    au,               \* SpecAudit: one audit computation (input, overall, grade)
    agent_histories,  \* ReinforcementLearningSystem.agent_histories
    tasks,            \* SpecLearn: the evaluate_and_learn coroutines
    scoreLog,         \* ghost: per agent, every audited overall score in commit order
    nAudits,          \* ghost: number of evaluate_and_learn calls started
    pl,               \* SpecPipeline: one process_query run and its AgentContext
    qc,               \* SpecQC: one sensor reading, its rule and the three verdicts
    ans,              \* SpecAnswer: one generated answer on its way to the caller
    gen,              \* SpecRespond: one outermost call, from its first step to its return
    tr,               \* SpecTranslate: one question on its way through DynamicRAGEngine
    ga,               \* SpecGaps: one DataGapAnalysis of RealDataAuditSystem
    fw,               \* SpecFormat: one AgentContext and two runs of FiveW1HAgent.process
    hp,               \* SpecHallucination: one response text under HallucinationPrevention
    chat              \* SpecChat: AIState and its send_message event handlers

vars == <<au, agent_histories, tasks, scoreLog, nAudits, pl, qc, ans, gen, tr, ga, fw, hp, chat>>

auditVars == <<au>>
learnVars == <<agent_histories, tasks, scoreLog, nAudits>>
pipeVars == <<pl>>
qcVars == <<qc>>
ansVars == <<ans>>
genVars == <<gen>>
trVars == <<tr>>
gaVars == <<ga>>
fwVars == <<fw>>
hpVars == <<hp>>
chatVars == <<chat>>

\* values of the variables a specification does not drive
PipeOff == [pc |-> "off"]
QcOff == [pc |-> "off"]
AnsOff == [pc |-> "off"]
GenOff == [pc |-> "off"]
TrOff == [pc |-> "off"]
GaOff == [pc |-> "off"]
FwOff == [pc |-> "off"]
HpOff == [pc |-> "off"]
ChatOff == [pc |-> "off"]

----------------------------------------------------------------------------
(* Helpers *)

Min(a, b) == IF a < b THEN a ELSE b
Max(a, b) == IF a > b THEN a ELSE b

RECURSIVE SumSeq(_)
SumSeq(s) == IF s = <<>> THEN 0 ELSE Head(s) + SumSeq(Tail(s))

\* the last n elements of s (python s[-n:])
LastN(s, n) == IF Len(s) <= n THEN s ELSE SubSeq(s, Len(s) - n + 1, Len(s))

\* integer square root by bisection: the r with r*r <= v < (r+1)*(r+1)
RECURSIVE SqrtBisect(_, _, _)
SqrtBisect(v, lo, hi) ==
    IF lo >= hi THEN lo
    ELSE LET mid == (lo + hi + 1) \div 2
         IN  IF mid * mid <= v THEN SqrtBisect(v, mid, hi)
                               ELSE SqrtBisect(v, lo, mid - 1)
ISqrt(v) == SqrtBisect(v, 0, 46340)

----------------------------------------------------------------------------
(* AuditAgent: overall score and grade (audit_agent_system.py)             *)

SubOne == 10000
MaxOverall == 1000

W_data_quality == 25
W_task_completion == 30
W_accuracy == 25
W_efficiency == 15
W_innovation == 5

\* a wrong weight table and no clamping
calculate_overall_score_Mutant(r) ==
    (r.data_quality_score * W_data_quality
       + r.task_completion_score * 35
       + r.accuracy_score * W_accuracy
       + r.efficiency_score * W_efficiency
       + r.innovation_score * W_innovation) \div 1000

\* the weighted sum times 100, clamped into [0, 100]; result in tenths
calculate_overall_score(r) ==
    LET weighted_score ==
            (r.data_quality_score * W_data_quality
               + r.task_completion_score * W_task_completion
               + r.accuracy_score * W_accuracy
               + r.efficiency_score * W_efficiency
               + r.innovation_score * W_innovation) \div 1000
    IN  Min(Max(weighted_score, 0), MaxOverall)

\* the two middle bands exchanged
assign_grade_Mutant(overall_score) ==
    IF overall_score >= 950 THEN "A+"
    ELSE IF overall_score >= 850 THEN "B"
    ELSE IF overall_score >= 700 THEN "A"
    ELSE IF overall_score >= 500 THEN "C"
    ELSE "F"

assign_grade(overall_score) ==
    IF overall_score >= 950 THEN "A+"
    ELSE IF overall_score >= 850 THEN "A"
    ELSE IF overall_score >= 700 THEN "B"
    ELSE IF overall_score >= 500 THEN "C"
    ELSE "F"

\* sub-score values tried for each of the five dimensions
SubGrid == {0, 2500, 5000, 7500, SubOne}

Quintuples ==
    [data_quality_score : SubGrid, task_completion_score : SubGrid,
     accuracy_score : SubGrid, efficiency_score : SubGrid,
     innovation_score : SubGrid]

ZeroQuintuple ==
    [data_quality_score |-> 0, task_completion_score |-> 0, accuracy_score |-> 0,
     efficiency_score |-> 0, innovation_score |-> 0]

AuditInit ==
    au \in [kind : {"calc"}, scores : Quintuples, overall : {0},
            grade : {"none"}, done : {FALSE}]
           \cup [kind : {"grade"}, scores : {ZeroQuintuple}, overall : 0..MaxOverall,
                 grade : {"none"}, done : {FALSE}]

\* audit_agent_performance steps 6 and 7 on the five sub-scores
CalculateOverall ==
    /\ au.kind = "calc" /\ ~au.done
    /\ LET o == calculate_overall_score(au.scores)
       IN  au' = [au EXCEPT !.overall = o, !.grade = assign_grade(o), !.done = TRUE]
    /\ UNCHANGED <<learnVars, pipeVars, qcVars, ansVars, genVars, trVars, gaVars, fwVars, hpVars, chatVars>>

\* _assign_grade on an arbitrary overall score
AssignGrade ==
    /\ au.kind = "grade" /\ ~au.done
    /\ au' = [au EXCEPT !.grade = assign_grade(au.overall), !.done = TRUE]
    /\ UNCHANGED <<learnVars, pipeVars, qcVars, ansVars, genVars, trVars, gaVars, fwVars, hpVars, chatVars>>

----------------------------------------------------------------------------
(* AuditAgent: the five evaluations (audit_agent_system.py 206-316).       *)
(* An audited context is described by the features the evaluations read:   *)
(*   raw_nonempty   bool(agent_context.raw_data)                           *)
(*   sensor         raw_data has a target_sensor or a first all_sensors row*)
(*   cur_req        "현재" in the query and all_sensors/focused_data in raw *)
(*   has_insights_attr   hasattr(agent_context, 'insights')                *)
(*   n_insights     len(agent_context.insights), 0..3                      *)
(*   has_report     bool(agent_context.quality_report)                     *)
(*   logic          quality_report.logic_validation.score                  *)
(*   n_recs         len(quality_report.recommendations), 0..3              *)
(*   speed          latency tier 1 (< 5 s) .. 4 (>= 20 s)                  *)
(*   error_attr     bool(getattr(agent_context, 'error', None))            *)
(* gap is the outcome of analyze_sensor_gaps: a completeness ratio, or     *)
(* GapRaises when the call raises.                                         *)

GapRaises == -1

\* does _evaluate_data_quality reach its await on analyze_sensor_gaps?
AwaitsGaps(ctx) == ctx.raw_nonempty /\ ctx.sensor

evaluate_data_quality(ctx, gap) ==
    IF ~ctx.raw_nonempty THEN 0
    ELSE IF ~ctx.sensor THEN 3000
    ELSE IF gap = GapRaises THEN 2000
    ELSE gap

evaluate_task_completion(ctx) ==
    LET requirements_met == IF ctx.cur_req THEN 9000 ELSE 6000
        completion == IF ctx.has_insights_attr THEN 8000 ELSE 4000
        exception_handling == IF ctx.error_attr THEN 3000 ELSE 7000
        score == (requirements_met * 4 + completion * 3 + exception_handling * 3) \div 10
    IN  Min(Max(score, 0), SubOne)

evaluate_accuracy(ctx) ==
    LET base == IF ctx.has_insights_attr /\ ctx.n_insights > 0 THEN 9000 ELSE 7000
        score == IF ctx.has_report THEN (base * 7 + ctx.logic * 3) \div 10 ELSE base
    IN  Min(Max(score, 0), SubOne)

evaluate_efficiency(ctx) ==
    LET speed_score == CASE ctx.speed = 1 -> 10000 [] ctx.speed = 2 -> 8000
                         [] ctx.speed = 3 -> 6000 [] OTHER -> 3000
        resource_score == 8000
        deduplication_score == 7000
        score == (speed_score * 3 + resource_score * 4 + deduplication_score * 3) \div 10
    IN  Min(Max(score, 0), SubOne)

evaluate_innovation(ctx) ==
    LET creativity == IF ctx.has_insights_attr /\ ctx.n_insights > 0
                      THEN (Min(ctx.n_insights, 3) * SubOne) \div 3 ELSE 0
        improvement == (Min(ctx.n_recs, 3) * SubOne) \div 3
        score == 5000 + (creativity * 3) \div 10 + (improvement * 2) \div 10
    IN  Min(Max(score, 0), SubOne)

\* _calculate_penalties_and_rewards: penalty_criteria / reward_criteria points
penalty_points(r) ==
    (IF r.data_quality_score < 5000 THEN -10 ELSE 0)
      + (IF r.accuracy_score < 5000 THEN -15 ELSE 0)
      + (IF r.task_completion_score < 6000 THEN -25 ELSE 0)

reward_points(r) ==
    (IF r.data_quality_score >= 9000 THEN 15 ELSE 0)
      + (IF r.accuracy_score >= 9000 THEN 20 ELSE 0)
      + (IF r.efficiency_score >= 9000 THEN 12 ELSE 0)

\* AuditAgent.audit_agent_performance: the AgentAuditResult of one audit
audit_agent_performance(ctx, gap) ==
    LET sub == [data_quality_score |-> evaluate_data_quality(ctx, gap),
                task_completion_score |-> evaluate_task_completion(ctx),
                accuracy_score |-> evaluate_accuracy(ctx),
                efficiency_score |-> evaluate_efficiency(ctx),
                innovation_score |-> evaluate_innovation(ctx)]
        overall == calculate_overall_score(sub)
    IN  [overall_score |-> overall,
         grade |-> assign_grade(overall),
         penalty_points |-> penalty_points(sub),
         reward_points |-> reward_points(sub)]

----------------------------------------------------------------------------
(* ReinforcementLearningSystem (audit_agent_system.py 404-524)             *)

WindowSize == 10
LrInit == 100000
LrCap == 300000
min_learning_rate == 10000
PmInit == 1000000
PmCap == 3000000
PmFloor == 1000000

\* AgentLearningHistory(agent_name=...) with the dataclass defaults
NewHistory ==
    [total_tasks |-> 0, successful_tasks |-> 0, failed_tasks |-> 0,
     average_score |-> 0, best_score |-> 0, worst_score |-> 1000,
     learning_rate |-> LrInit, adaptation_speed |-> 0, consistency_score |-> 0,
     total_penalties |-> 0, total_rewards |-> 0,
     current_penalty_multiplier |-> PmInit,
     recent_scores |-> <<>>, improvement_trend |-> 0]

RECURSIVE SumSq(_)
SumSq(s) == IF s = <<>> THEN 0 ELSE Head(s) * Head(s) + SumSq(Tail(s))

\* sum of i * s[i+1] for i = 0 .. Len(s)-1 (x = range(len(s)))
RECURSIVE SumXY(_, _)
SumXY(s, i) == IF s = <<>> THEN 0 ELSE i * Head(s) + SumXY(Tail(s), i + 1)

\* np.polyfit(range(n), s, 1)[0] / 10, clamped to [-1, 1]; unit 1/10000
Trend(s) ==
    LET n == Len(s)
        sx == (n * (n - 1)) \div 2
        sxx == ((n - 1) * n * (2 * n - 1)) \div 6
        num == n * SumXY(s, 0) - sx * SumSeq(s)
        den == n * sxx - sx * sx
    IN  Max(-10000, Min(10000, (num * 100) \div den))

\* np.var(s) in tenths squared
Variance(s) == (Len(s) * SumSq(s) - SumSeq(s) * SumSeq(s)) \div (Len(s) * Len(s))

\* the window after one more score: evicts the newest entry instead of the oldest
push_score_Mutant(scores, overall_score) ==
    LET appended == Append(scores, overall_score)
    IN  IF Len(appended) > WindowSize THEN SubSeq(appended, 1, WindowSize) ELSE appended

\* recent_scores.append(score); pop(0) when more than 10 are held
push_score(scores, overall_score) ==
    LET appended == Append(scores, overall_score)
    IN  IF Len(appended) > WindowSize THEN Tail(appended) ELSE appended

\* _update_learning_history on the agent's history h
update_learning_history(h, r) ==
    LET scores == push_score(h.recent_scores, r.overall_score)
    IN  [h EXCEPT
           !.total_tasks = @ + 1,
           !.successful_tasks = IF r.overall_score >= 700 THEN @ + 1 ELSE @,
           !.failed_tasks = IF r.overall_score >= 700 THEN @ ELSE @ + 1,
           !.recent_scores = scores,
           !.average_score = SumSeq(scores) \div Len(scores),
           !.best_score = Max(@, r.overall_score),
           !.worst_score = Min(@, r.overall_score),
           !.improvement_trend = IF Len(scores) >= 3 THEN Trend(scores) ELSE @,
           !.total_penalties = @ + r.penalty_points,
           !.total_rewards = @ + r.reward_points]

\* the ceiling of 0.3 is missing
adjust_learning_rate_Mutant(lr, overall_score) ==
    IF overall_score < 600 THEN (lr * 12) \div 10
    ELSE IF overall_score > 850 THEN Max(min_learning_rate, (lr * 95) \div 100)
    ELSE lr

\* step 1 of _apply_reinforcement_learning; learning_decay = 0.95
adjust_learning_rate(lr, overall_score) ==
    IF overall_score < 600 THEN Min(LrCap, (lr * 12) \div 10)
    ELSE IF overall_score > 850 THEN Max(min_learning_rate, (lr * 95) \div 100)
    ELSE lr

\* the floor of 1.0 is missing
adjust_penalty_multiplier_Mutant(pm, overall_score) ==
    IF overall_score < 500 THEN Min(PmCap, (pm * 12) \div 10)
    ELSE IF overall_score > 800 THEN (pm * 9) \div 10
    ELSE pm

\* step 2 of _apply_reinforcement_learning; penalty_amplifier = 1.2
adjust_penalty_multiplier(pm, overall_score) ==
    IF overall_score < 500 THEN Min(PmCap, (pm * 12) \div 10)
    ELSE IF overall_score > 800 THEN Max(PmFloor, (pm * 9) \div 10)
    ELSE pm

\* _apply_reinforcement_learning on the history returned by the update
apply_reinforcement_learning(h, r) ==
    [h EXCEPT
       !.learning_rate = adjust_learning_rate(@, r.overall_score),
       !.current_penalty_multiplier = adjust_penalty_multiplier(@, r.overall_score),
       !.adaptation_speed =
           IF Len(h.recent_scores) >= 5
           THEN 100000000 \div (10000 + Variance(LastN(h.recent_scores, 5)))
           ELSE @,
       !.consistency_score =
           IF Len(h.recent_scores) >= 3
           THEN Max(0, 10000 - ISqrt(100 * Variance(LastN(h.recent_scores, 3))))
           ELSE @]

\* steps 2 and 3 of evaluate_and_learn for one audit result
LearnStep(h, r) == apply_reinforcement_learning(update_learning_history(h, r), r)

\* the history after the audit results rs[lo..hi], in order, applied to h
\* (halving, and looking at the left half before the right one is started,
\* keeps the evaluation shallow)
RECURSIVE ReplayRange(_, _, _, _)
ReplayRange(h, rs, lo, hi) ==
    IF lo > hi THEN h
    ELSE IF lo = hi THEN LearnStep(h, rs[lo])
    ELSE LET mid == (lo + hi) \div 2
             left == ReplayRange(h, rs, lo, mid)
         IN  IF left.total_tasks >= 0 THEN ReplayRange(left, rs, mid + 1, hi) ELSE left

Replay(h, rs) == ReplayRange(h, rs, 1, Len(rs))

AuditIdle == [kind |-> "grade", scores |-> ZeroQuintuple, overall |-> 0,
              grade |-> "none", done |-> FALSE]

LearnIdle ==
    /\ agent_histories = <<>>
    /\ tasks = <<>>
    /\ scoreLog = <<>>
    /\ nAudits = 0

OthersOff ==
    /\ pl = PipeOff /\ qc = QcOff /\ ans = AnsOff /\ gen = GenOff /\ tr = TrOff
    /\ ga = GaOff /\ fw = FwOff /\ hp = HpOff /\ chat = ChatOff

InitAudit == AuditInit /\ LearnIdle /\ OthersOff
NextAudit == CalculateOverall \/ AssignGrade
SpecAudit == InitAudit /\ [][NextAudit]_vars

----------------------------------------------------------------------------
(* SpecLearn: evaluate_and_learn called from coroutines of one event loop. *)
(* A coroutine gives up control only where it awaits something that is not *)
(* ready: inside evaluate_and_learn that is the database query under       *)
(* analyze_sensor_gaps (reached when AwaitsGaps holds).  The awaits on     *)
(* _update_learning_history, _apply_reinforcement_learning and             *)
(* _generate_performance_report run coroutines that contain no await, so   *)
(* everything after the audit is one step.                                 *)

Tasks == {"t1", "t2"}
Agents == {"ResearchAgent", "AnalysisAgent"}

MaxAudits == 2      \* evaluate_and_learn calls made in one behaviour
WarmLowLen == 6     \* length of the warm history of failing audits
WarmHighLen == 44   \* length of the warm history of excellent audits
WarmMixedLen == 9   \* length of the warm history of alternating audits

CtxBare ==
    [raw_nonempty |-> FALSE, sensor |-> FALSE, cur_req |-> FALSE,
     has_insights_attr |-> FALSE, n_insights |-> 0, has_report |-> FALSE,
     logic |-> 5000, n_recs |-> 0, speed |-> 4, error_attr |-> FALSE]

CtxResearch ==
    [raw_nonempty |-> TRUE, sensor |-> TRUE, cur_req |-> FALSE,
     has_insights_attr |-> TRUE, n_insights |-> 0, has_report |-> FALSE,
     logic |-> 5000, n_recs |-> 0, speed |-> 1, error_attr |-> FALSE]

CtxReview ==
    [raw_nonempty |-> TRUE, sensor |-> TRUE, cur_req |-> TRUE,
     has_insights_attr |-> TRUE, n_insights |-> 3, has_report |-> TRUE,
     logic |-> 8000, n_recs |-> 3, speed |-> 1, error_attr |-> FALSE]

LearnCtxs == {CtxBare, CtxResearch, CtxReview}
GapOutcomes == {GapRaises, 0, 8500, SubOne}

\* audit results of earlier calls: histories the process can hold when the
\* behaviour starts (each is Replay of real audits from a fresh history)
WarmPrefixes ==
    { <<>>,
      [i \in 1..WarmLowLen |-> audit_agent_performance(CtxBare, 0)],
      [i \in 1..WarmHighLen |-> audit_agent_performance(CtxReview, SubOne)],
      [i \in 1..WarmMixedLen |->
          IF i % 2 = 1 THEN audit_agent_performance(CtxResearch, 8500)
                       ELSE audit_agent_performance(CtxReview, 0)] }

IdleTask == [pc |-> "idle", agent |-> "ResearchAgent", ctx |-> CtxBare, seen |-> NewHistory]

LearnInit ==
    /\ \E p \in WarmPrefixes :
          IF p = <<>>
          THEN agent_histories = <<>> /\ scoreLog = <<>>
          ELSE /\ agent_histories = ("ResearchAgent" :> Replay(NewHistory, p))
               /\ scoreLog = ("ResearchAgent" :> p)
    /\ tasks = [t \in Tasks |-> IdleTask]
    /\ nAudits = 0

\* lines 455-458 done on a copy taken when the coroutine was called
history_read_Mutant(hs, tk) == tk.seen

\* lines 455-458: create the entry on first use, then work on the stored entry
history_read(hs, tk) ==
    IF tk.agent \in DOMAIN hs THEN hs[tk.agent] ELSE NewHistory

\* an update that rebuilds the map around the audited agent alone
Commit_Mutant(tk, r) ==
    /\ agent_histories' = (tk.agent :> LearnStep(history_read(agent_histories, tk), r))
    /\ scoreLog' =
          [a \in DOMAIN scoreLog \cup {tk.agent} |->
              IF a = tk.agent
              THEN Append(IF a \in DOMAIN scoreLog THEN scoreLog[a] ELSE <<>>, r)
              ELSE scoreLog[a]]

\* evaluate_and_learn from the return of the audit to its own return
Commit(tk, r) ==
    /\ agent_histories' =
          [a \in DOMAIN agent_histories \cup {tk.agent} |->
              IF a = tk.agent THEN LearnStep(history_read(agent_histories, tk), r)
              ELSE agent_histories[a]]
    /\ scoreLog' =
          [a \in DOMAIN scoreLog \cup {tk.agent} |->
              IF a = tk.agent
              THEN Append(IF a \in DOMAIN scoreLog THEN scoreLog[a] ELSE <<>>, r)
              ELSE scoreLog[a]]

Seen(a) == IF a \in DOMAIN agent_histories THEN agent_histories[a] ELSE NewHistory

\* a call whose audit never waits: the whole of evaluate_and_learn is one step
CallNoAwait(t, a, ctx) ==
    /\ tasks[t].pc = "idle" /\ nAudits < MaxAudits
    /\ ~AwaitsGaps(ctx)
    /\ Commit([IdleTask EXCEPT !.agent = a, !.ctx = ctx, !.seen = Seen(a)],
              audit_agent_performance(ctx, 0))
    /\ nAudits' = nAudits + 1
    /\ UNCHANGED <<tasks, au, pipeVars, qcVars, ansVars, genVars, trVars, gaVars, fwVars, hpVars, chatVars>>

\* a call that runs up to the await on analyze_sensor_gaps
CallAwait(t, a, ctx) ==
    /\ tasks[t].pc = "idle" /\ nAudits < MaxAudits
    /\ AwaitsGaps(ctx)
    /\ tasks' = [tasks EXCEPT ![t] =
                    [pc |-> "awaiting_gaps", agent |-> a, ctx |-> ctx, seen |-> Seen(a)]]
    /\ nAudits' = nAudits + 1
    /\ UNCHANGED <<agent_histories, scoreLog, au, pipeVars, qcVars, ansVars, genVars, trVars, gaVars, fwVars, hpVars, chatVars>>

\* analyze_sensor_gaps returns or raises; the coroutine runs to its end
GapsReturn(t, gap) ==
    /\ tasks[t].pc = "awaiting_gaps"
    /\ Commit(tasks[t], audit_agent_performance(tasks[t].ctx, gap))
    /\ tasks' = [tasks EXCEPT ![t] = IdleTask]
    /\ UNCHANGED <<nAudits, au, pipeVars, qcVars, ansVars, genVars, trVars, gaVars, fwVars, hpVars, chatVars>>

InitLearn == LearnInit /\ au = AuditIdle /\ OthersOff
NextLearn ==
    \/ \E t \in Tasks, a \in Agents, ctx \in LearnCtxs : CallNoAwait(t, a, ctx)
    \/ \E t \in Tasks, a \in Agents, ctx \in LearnCtxs : CallAwait(t, a, ctx)
    \/ \E t \in Tasks, gap \in GapOutcomes : GapsReturn(t, gap)
SpecLearn == InitLearn /\ [][NextLearn]_vars

----------------------------------------------------------------------------
\* the overall scores of a sequence of audit results
Overalls(rs) == [i \in 1..Len(rs) |-> rs[i].overall_score]

LogOf(a) == IF a \in DOMAIN scoreLog THEN scoreLog[a] ELSE <<>>

(* C3: when evaluate_and_learn calls for the same agent overlap, every     *)
(* history is the result of applying the committed audits one after the    *)
(* other, whole update by whole update, in the order in which they         *)
(* returned from the audit.                                                *)
C3_HistorySerialized ==
    \A a \in DOMAIN agent_histories :
        agent_histories[a] = Replay(NewHistory, LogOf(a))

\* a call is still waiting for its audit while another call for the same
\* agent, made no later than it returned, has already changed the history
C3_Witness ==
    \E t \in Tasks :
        /\ tasks[t].pc = "awaiting_gaps"
        /\ tasks[t].agent \in DOMAIN agent_histories
        /\ tasks[t].seen # agent_histories[tasks[t].agent]

\* the agents whose audit-and-learn completes in this step
Learning ==
    {a \in DOMAIN scoreLog' : a \notin DOMAIN scoreLog \/ scoreLog'[a] # scoreLog[a]}

(* C14: a step that completes an audit-and-learn for agent A leaves A with  *)
(* a history (created if there was none), changes no other agent's history  *)
(* and removes no entry of agent_histories; no other step touches the map.  *)
C14_OnlyOwnHistoryChanges ==
    [][/\ Cardinality(Learning) <= 1
       /\ Learning \subseteq DOMAIN agent_histories'
       /\ \A a \in DOMAIN agent_histories :
             /\ a \in DOMAIN agent_histories'
             /\ a \notin Learning => agent_histories'[a] = agent_histories[a]
       /\ DOMAIN agent_histories' \subseteq DOMAIN agent_histories \cup Learning]_vars

C14_Witness ==
    /\ DOMAIN agent_histories = Agents
    /\ Len(scoreLog["AnalysisAgent"]) = 1
    /\ Len(scoreLog["ResearchAgent"]) = WarmLowLen + 1
    /\ agent_histories["ResearchAgent"].total_tasks = WarmLowLen + 1
    /\ agent_histories["AnalysisAgent"].total_tasks = 1

(* C4: recent_scores never holds more than 10 entries and is exactly the   *)
(* last min(n, 10) audited overall scores in arrival order.                *)
C4_WindowIsLastTen ==
    \A a \in DOMAIN agent_histories :
        /\ Len(agent_histories[a].recent_scores) <= 10
        /\ agent_histories[a].recent_scores = LastN(Overalls(LogOf(a)), 10)

C4_Witness ==
    \E a \in DOMAIN agent_histories :
        /\ Len(LogOf(a)) > 10
        /\ agent_histories[a].recent_scores[10] # agent_histories[a].recent_scores[9]
        /\ agent_histories[a].recent_scores[1] # LogOf(a)[1].overall_score

\* the agents whose history was updated by the step
Audited(a) ==
    /\ a \in DOMAIN agent_histories'
    /\ Len(scoreLog'[a]) > Len(LogOf(a))

LastOverall(a) == scoreLog'[a][Len(scoreLog'[a])].overall_score

(* C5: an audit with overall < 60 multiplies the learning rate by 1.2,     *)
(* capped at 0.3; overall > 85 multiplies it by 0.95, floored at 0.01;     *)
(* otherwise it is unchanged; the rate stays within [0.01, 0.3].           *)
C5_LearningRate ==
    /\ [](\A a \in DOMAIN agent_histories :
             /\ agent_histories[a].learning_rate >= 10000
             /\ agent_histories[a].learning_rate <= 300000)
    /\ [][\A a \in Agents : Audited(a) =>
             LET old == IF a \in DOMAIN agent_histories
                        THEN agent_histories[a].learning_rate ELSE 100000
                 new == agent_histories'[a].learning_rate
                 o == LastOverall(a)
             IN  new = IF o < 600 THEN Min(300000, (old * 12) \div 10)
                       ELSE IF o > 850 THEN Max(10000, (old * 95) \div 100)
                       ELSE old]_vars

C5_Witness ==
    \E a \in DOMAIN agent_histories :
        /\ agent_histories[a].learning_rate = 10000
        /\ agent_histories[a].total_tasks > WarmHighLen
        /\ agent_histories[a].recent_scores[10] > 850

(* C6: an audit with overall < 50 multiplies the penalty multiplier by     *)
(* 1.2, capped at 3.0; overall > 80 multiplies it by 0.9, floored at 1.0;  *)
(* otherwise it is unchanged; the multiplier stays within [1.0, 3.0].      *)
C6_PenaltyMultiplier ==
    /\ [](\A a \in DOMAIN agent_histories :
             /\ agent_histories[a].current_penalty_multiplier >= 1000000
             /\ agent_histories[a].current_penalty_multiplier <= 3000000)
    /\ [][\A a \in Agents : Audited(a) =>
             LET old == IF a \in DOMAIN agent_histories
                        THEN agent_histories[a].current_penalty_multiplier ELSE 1000000
                 new == agent_histories'[a].current_penalty_multiplier
                 o == LastOverall(a)
             IN  new = IF o < 500 THEN Min(3000000, (old * 12) \div 10)
                       ELSE IF o > 800 THEN Max(1000000, (old * 9) \div 10)
                       ELSE old]_vars

C6_Witness ==
    \E a \in DOMAIN agent_histories :
        /\ agent_histories[a].current_penalty_multiplier = 3000000
        /\ agent_histories[a].total_tasks > WarmLowLen
        /\ agent_histories[a].recent_scores[Len(agent_histories[a].recent_scores)] < 500

----------------------------------------------------------------------------
(* C7: for sub-scores in [0,1] the audit's overall score is the weighted   *)
(* sum 100*(0.25 dq + 0.30 tc + 0.25 acc + 0.15 eff + 0.05 inn) and lies   *)
(* within [0, 100].                                                        *)
C7_OverallInRange ==
    (au.kind = "calc" /\ au.done) =>
        /\ au.overall >= 0 /\ au.overall <= 1000
        /\ au.overall = (25 * au.scores.data_quality_score
                          + 30 * au.scores.task_completion_score
                          + 25 * au.scores.accuracy_score
                          + 15 * au.scores.efficiency_score
                          + 5 * au.scores.innovation_score) \div 1000

C7_Witness ==
    /\ au.kind = "calc" /\ au.done
    /\ au.overall = 1000
    /\ \A f \in DOMAIN au.scores : au.scores[f] = SubOne

GradeRank(g) ==
    CASE g = "F" -> 0 [] g = "C" -> 1 [] g = "B" -> 2 [] g = "A" -> 3 [] g = "A+" -> 4

(* C8: the grade follows the bands >= 95 A+, >= 85 A, >= 70 B, >= 50 C,    *)
(* else F, and no higher overall score receives a lower grade.             *)
C8_GradeBandsMonotonic ==
    au.done =>
        /\ au.grade = (IF au.overall >= 950 THEN "A+"
                       ELSE IF au.overall >= 850 THEN "A"
                       ELSE IF au.overall >= 700 THEN "B"
                       ELSE IF au.overall >= 500 THEN "C" ELSE "F")
        /\ \A o2 \in 0..MaxOverall :
              o2 >= au.overall => GradeRank(assign_grade(o2)) >= GradeRank(au.grade)

C8_Witness == au.kind = "grade" /\ au.done /\ au.overall = 849 /\ au.grade = "B"

----------------------------------------------------------------------------
(* SpecPipeline: one process_query run.  orch says which orchestrator runs  *)
(* it: EnhancedMultiAgentOrchestrator (enhanced_agent_orchestrator.py) or   *)
(* MultiAgentOrchestrator (agent_orchestrator.py).                          *)
(*                                                                         *)
(* A question is described by the keyword classes it contains               *)
(*   corr  상관/관계/correlation/연관      cur   현재/지금/상태는              *)
(*   cmp   어제/비교/변화/compare/change   hist  일주일/트렌드/추세            *)
(*   qc    위반/경고/초과/임계             sys   전체/요약/종합/전반적         *)
(* and by the number of D### sensor tags in it (0, 1, 2 = two or more).     *)
(* The database is described by rows (the snapshot and aggregate queries    *)
(* return rows), vrate (the violation rate, in percent, that the QC filter  *)
(* computes) and crit (some violation is critical).  raw_data, insights and *)
(* research_notes are kept as the set of keys present.                      *)

StageOrder == <<"Research", "Analysis", "Review">>

AgentOf(stage) ==
    CASE stage = "Research" -> "ResearchAgent"
      [] stage = "Analysis" -> "AnalysisAgent"
      [] OTHER -> "ReviewAgent"

\* process_query with the second and third stage exchanged
stage_after_Mutant(s) ==
    CASE s = "Research" -> "Review"
      [] s = "Review" -> "Analysis"
      [] OTHER -> "Finish"

\* process_query: what is awaited once stage s (and its audit) has returned
stage_after(s) ==
    CASE s = "Research" -> "Analysis"
      [] s = "Analysis" -> "Review"
      [] OTHER -> "Finish"

Queries ==
    { {}, {"cur"}, {"cmp"}, {"hist"}, {"qc"}, {"sys"}, {"corr"},
      {"corr", "cur"}, {"cur", "cmp"}, {"hist", "qc", "sys"} }

TagCounts == 0..2
ViolationRates == {0, 5, 15, 50}

classify_query(q) ==
    IF "corr" \in q THEN "correlation_analysis"
    ELSE IF "cur" \in q THEN "current_status"
    ELSE IF "cmp" \in q THEN "comparison_analysis"
    ELSE IF "hist" \in q THEN "historical_trend"
    ELSE IF "qc" \in q THEN "qc_violation"
    ELSE IF "sys" \in q THEN "system_overview"
    ELSE "adaptive"

\* A collector is a sequence of key sets: plan[1] is written before the
\* first external call, plan[i+1] between call i and call i+1, the last one
\* after the last call.  Calls made in a loop over the tags count as one.
current_plan(tags) ==
    IF tags >= 2 THEN <<{"target_sensors"}, {"focused_data"}, {"relevant_qc"}>>
    ELSE IF tags = 1 THEN <<{}, {"target_sensor", "focused_data"}, {"relevant_qc"}>>
    ELSE <<{}, {"all_sensors"}, {"relevant_qc"}>>

historical_plan == <<{}, {"historical_summary", "time_range_days", "target_sensor"}>>

\* the third failure point is float() of a NULL threshold in the filter loop
qc_focused_plan ==
    <<{}, {}, {"current_sensors", "relevant_qc"},
      {"violations", "total_sensors", "violation_rate"}>>

correlation_plan(tags) ==
    IF tags >= 2
    THEN <<{"correlation_sensors"}, {"sensor_data"}, {"correlation_stats"},
           {"correlation_samples"}, {"relevant_qc"}>>
    ELSE current_plan(tags)

comparison_plan(rows) ==
    <<{}, {"comparison_data"} \cup (IF rows THEN {"top_changes", "max_change_sensor"} ELSE {}),
      {"current_sensors"}, {"relevant_qc"}>>

collect_plan(query_type, tags, rows) ==
    CASE query_type = "correlation_analysis" -> correlation_plan(tags)
      [] query_type = "comparison_analysis" -> comparison_plan(rows)
      [] query_type = "historical_trend" -> historical_plan
      [] query_type = "qc_violation" -> qc_focused_plan
      [] OTHER -> current_plan(tags)

MaxCalls == 4   \* the longest collector makes four external calls

\* a collector without its try/except: the exception leaves the collector
run_collector_Mutant(plan, failAt) ==
    [keys |-> IF failAt = 0 THEN UNION {plan[i] : i \in 1..Len(plan)}
              ELSE UNION {plan[i] : i \in 1..failAt},
     escaped |-> failAt > 0]

\* a collector: failAt = 0, or call number failAt raises and the except
\* clause writes raw_data["error"]
run_collector(plan, failAt) ==
    [keys |-> IF failAt = 0 THEN UNION {plan[i] : i \in 1..Len(plan)}
              ELSE UNION {plan[i] : i \in 1..failAt} \cup {"error"},
     escaped |-> FALSE]

\* EnhancedResearchAgent.process, step 2; _collect_comprehensive_data wraps
\* _collect_current_data and the statistics query in its own try/except
research_collect(query_type, tags, rows, failAt, statsFails) ==
    LET c == run_collector(collect_plan(query_type, tags, rows), failAt)
    IN  IF query_type # "system_overview" THEN c
        ELSE IF c.escaped THEN [keys |-> c.keys \cup {"error"}, escaped |-> FALSE]
        ELSE [keys |-> c.keys \cup (IF statsFails THEN {"error"} ELSE {"system_stats"}),
              escaped |-> FALSE]

\* _assess_data_quality, in tenths
assess_data_quality(raw) ==
    Min((IF raw # {} /\ "error" \notin raw THEN 5 ELSE 0)
        + (IF raw \cap {"all_sensors", "focused_data", "violations"} # {} THEN 3 ELSE 0)
        + (IF "relevant_qc" \in raw THEN 2 ELSE 0), 10)

NoInsights == [keys |-> {}, nonempty |-> {}, pandas_error |-> FALSE]
NoReport ==
    [present |-> FALSE, data_validation |-> 0, analysis_validation |-> 0,
     logic_validation |-> 0, n_recs |-> 0]

\* does _analyze_patterns reach PandasAnalysisEngine.analyze_sensor_data?
CallsPandas(p) == {"correlation_sensors", "correlation_stats"} \subseteq p.raw_data

\* EnhancedAnalysisAgent: _analyze_patterns, _detect_anomalies, _generate_insights
analyze(p, pandasFails) ==
    LET patterns == ("all_sensors" \in p.raw_data /\ p.rows) \/ CallsPandas(p)
        anomalies == "violations" \in p.raw_data
        predictions == "violation_rate" \in p.raw_data \/ "target_sensor" \in p.raw_data
    IN  [keys |-> {"patterns", "anomalies", "predictions"},
         nonempty |-> (IF patterns THEN {"patterns"} ELSE {})
                        \cup (IF anomalies THEN {"anomalies"} ELSE {})
                        \cup (IF predictions THEN {"predictions"} ELSE {}),
         pandas_error |-> CallsPandas(p) /\ pandasFails]

\* _calculate_confidence, in tenths
calculate_confidence(ins) ==
    (IF "patterns" \in ins.nonempty THEN 3 ELSE 0)
      + (IF "anomalies" \in ins.nonempty THEN 4 ELSE 0)
      + (IF "predictions" \in ins.nonempty THEN 3 ELSE 0)

\* EnhancedReviewAgent.process: the quality report, scores in tenths
review(p) ==
    LET hasViolations == "violations" \in p.raw_data /\ p.vrate > 0
        \* the prediction texts for a rate above 10 contain "위반"
        mentions == "violation_rate" \in p.raw_data /\ p.vrate > 10
        data == (IF p.raw_data # {} /\ "error" \notin p.raw_data THEN 5 ELSE 0)
                  + (IF p.quality_score > 7 THEN 3 ELSE 0)
                  + (IF "relevant_qc" \in p.raw_data THEN 2 ELSE 0)
        analysis == (IF p.insights.keys # {} THEN 4 ELSE 0)
                      + (IF p.confidence_score > 7 THEN 3 ELSE 0)
                      + (IF "patterns" \in p.insights.nonempty THEN 3 ELSE 0)
        logic == IF hasViolations /\ ~mentions THEN 5 ELSE 8
        recs == (IF "quality_score" \in p.raw_data /\ p.quality_score < 5 THEN 1 ELSE 0)
                  + (IF hasViolations /\ p.crit THEN 1 ELSE 0)
                  + (IF "violation_rate" \in p.raw_data /\ p.vrate > 10 THEN 1 ELSE 0)
    IN  [present |-> TRUE, data_validation |-> data, analysis_validation |-> analysis,
         logic_validation |-> logic, n_recs |-> recs]

\* what the audit reads from the AgentContext of the enhanced orchestrator
AuditCtx(p, speed) ==
    [raw_nonempty |-> p.raw_data # {},
     sensor |-> ("target_sensor" \in p.raw_data /\ p.tags >= 1)
                  \/ ("all_sensors" \in p.raw_data /\ p.rows),
     cur_req |-> "cur" \in p.query /\ p.raw_data \cap {"all_sensors", "focused_data"} # {},
     has_insights_attr |-> TRUE,
     n_insights |-> Cardinality(p.insights.keys),
     has_report |-> p.quality_report.present,
     logic |-> IF p.quality_report.present THEN p.quality_report.logic_validation * 1000
               ELSE 5000,
     n_recs |-> p.quality_report.n_recs,
     speed |-> speed,
     error_attr |-> FALSE]

PipeGaps == {GapRaises, SubOne}
PipeSpeeds == {1, 3}

PipeIdle(orch, audit_on) ==
    [pc |-> "Idle", orch |-> orch, audit_system_initialized |-> audit_on,
     stage |-> "Research", query |-> {}, tags |-> 0, rows |-> FALSE, vrate |-> 0,
     crit |-> FALSE,
     raw_data |-> {}, raw_writer |-> <<>>, quality_score |-> 0, insights |-> NoInsights,
     confidence_score |-> 0, quality_report |-> NoReport,
     sensor_data |-> FALSE, qc_data |-> FALSE, research_notes |-> {},
     analysis_result |-> FALSE, conflicts |-> FALSE, review_feedback |-> "",
     structured_response |-> FALSE,
     log |-> <<>>, audited |-> <<>>, failed |-> FALSE, result |-> "none"]

PipeInit ==
    pl \in {PipeIdle("enhanced", TRUE), PipeIdle("enhanced", FALSE), PipeIdle("base", FALSE)}

\* the run moves on from the stage it has finished
Advance(p) ==
    LET n == stage_after(p.stage)
    IN  IF n = "Finish" THEN [p EXCEPT !.pc = "Finishing"]
        ELSE [p EXCEPT !.pc = "Ready", !.stage = n]

\* a process_query that goes on to the next stage without the audit
Returned_Mutant(p) ==
    Advance([p EXCEPT !.log = Append(p.log, <<p.stage, "return">>)])

\* after a stage has returned: its audit first, when the audit system is on
Returned(p) ==
    LET q == [p EXCEPT !.log = Append(p.log, <<p.stage, "return">>)]
    IN  IF q.orch = "enhanced" /\ q.audit_system_initialized
        THEN [q EXCEPT !.pc = "Auditing"]
        ELSE Advance(q)

\* the outer except clause of process_query
Aborted(p) ==
    [p EXCEPT !.pc = "Done", !.result = "error",
              !.log = Append(p.log, <<p.stage, "raise">>)]

\* context.raw_data[k] = ... for every k of keys, by the step who; raw_writer
\* (ghost) remembers which step assigned each entry last
assign(p, keys, who) ==
    [p EXCEPT !.raw_data = p.raw_data \cup keys,
              !.raw_writer = [k \in p.raw_data \cup keys |->
                                IF k \in keys THEN who ELSE p.raw_writer[k]]]

PipeFrame == UNCHANGED <<auditVars, learnVars, qcVars, ansVars, genVars, trVars, gaVars, fwVars, hpVars, chatVars>>

\* process_query is called: context = AgentContext(query=query)
Begin(q, tags, rows, vrate, crit) ==
    /\ pl.pc = "Idle"
    /\ (crit => vrate > 0)
    /\ vrate > 0 => (rows /\ pl.orch = "enhanced" /\ classify_query(q) = "qc_violation")
    /\ pl' = [pl EXCEPT !.pc = "Ready", !.query = q, !.tags = tags, !.rows = rows,
                        !.vrate = vrate, !.crit = crit]
    /\ PipeFrame

\* context = await self.<stage>_agent.process(context) is entered
StartStage ==
    /\ pl.pc = "Ready"
    /\ pl' = [pl EXCEPT !.pc = "Running", !.log = Append(pl.log, <<pl.stage, "start">>)]
    /\ PipeFrame

\* EnhancedResearchAgent.process
ResearchReturns(failAt, statsFails) ==
    /\ pl.pc = "Running" /\ pl.stage = "Research" /\ pl.orch = "enhanced"
    /\ LET query_type == classify_query(pl.query)
           plan == collect_plan(query_type, pl.tags, pl.rows)
           c == research_collect(query_type, pl.tags, pl.rows, failAt, statsFails)
       IN  /\ failAt <= Len(plan) - 1
           /\ statsFails => query_type = "system_overview"
           /\ pl' = IF c.escaped
                    THEN Aborted(assign([pl EXCEPT !.failed = TRUE], c.keys, "Research"))
                    ELSE Returned(assign([pl EXCEPT
                                             !.quality_score = assess_data_quality(c.keys),
                                             !.failed = failAt > 0 \/ statsFails],
                                         c.keys \cup {"quality_score"}, "Research"))
    /\ PipeFrame

\* EnhancedAnalysisAgent.process
AnalysisReturns(pandasFails) ==
    /\ pl.pc = "Running" /\ pl.stage = "Analysis" /\ pl.orch = "enhanced"
    /\ pandasFails => CallsPandas(pl)
    /\ LET ins == analyze(pl, pandasFails)
       IN  pl' = Returned([pl EXCEPT !.insights = ins,
                                     !.confidence_score = calculate_confidence(ins),
                                     !.failed = pl.failed \/ pandasFails])
    /\ PipeFrame

\* EnhancedReviewAgent.process
ReviewReturns ==
    /\ pl.pc = "Running" /\ pl.stage = "Review" /\ pl.orch = "enhanced"
    /\ pl' = Returned([pl EXCEPT !.quality_report = review(pl)])
    /\ PipeFrame

\* audit_agent_performance(<agent>, query, context, execution_time) after a stage
AuditStage(gap, speed) ==
    /\ pl.pc = "Auditing"
    /\ \E ctx \in {AuditCtx(pl, speed)}, a \in {AgentOf(pl.stage)} :
          /\ ~AwaitsGaps(ctx) => gap = SubOne
          /\ \E r \in {audit_agent_performance(ctx, gap)} :
                Commit([IdleTask EXCEPT !.agent = a, !.ctx = ctx, !.seen = Seen(a)], r)
          /\ pl' = Advance([pl EXCEPT !.audited = Append(pl.audited, a)])
    /\ UNCHANGED <<tasks, nAudits, auditVars, qcVars, ansVars, genVars, trVars, gaVars, fwVars, hpVars, chatVars>>

\* ResearchAgent.process of the base orchestrator returns; a failure of the
\* QC rule query is written into research_notes
BaseResearchReturns(qcFails) ==
    /\ pl.pc = "Running" /\ pl.stage = "Research" /\ pl.orch = "base"
    /\ pl' = Returned([pl EXCEPT !.sensor_data = pl.rows,
                                 !.qc_data = pl.rows /\ ~qcFails,
                                 !.research_notes = {"sensor_data", "qc_rules"},
                                 !.failed = qcFails])
    /\ PipeFrame

\* ResearchAgent.process of the base orchestrator: latest_snapshot is awaited
\* outside any try (lines 99, 105, 110); its exception reaches process_query
BaseResearchRaises ==
    /\ pl.pc = "Running" /\ pl.stage = "Research" /\ pl.orch = "base"
    /\ pl' = Aborted([pl EXCEPT !.failed = TRUE])
    /\ PipeFrame

\* AnalysisAgent.process of the base orchestrator; conflicting says whether
\* the report text contains one of ReviewAgent.conflict_patterns
BaseAnalysisReturns(conflicting) ==
    /\ pl.pc = "Running" /\ pl.stage = "Analysis" /\ pl.orch = "base"
    /\ pl' = Returned([pl EXCEPT !.analysis_result = TRUE, !.conflicts = conflicting])
    /\ PipeFrame

\* ReviewAgent._calculate_completeness, in quarters
calculate_completeness(p) ==
    (IF p.sensor_data THEN 1 ELSE 0) + (IF p.qc_data THEN 1 ELSE 0)
      + (IF p.research_notes # {} THEN 1 ELSE 0) + (IF p.analysis_result THEN 1 ELSE 0)

\* a review that approves on completeness alone
review_feedback_Mutant(p) ==
    IF ~p.analysis_result THEN "empty_analysis"
    ELSE IF calculate_completeness(p) * 10 > 28 THEN "approved"
    ELSE "rework"

\* ReviewAgent.process, lines 352-372: the verdict written into
\* review_feedback; completeness_score > 0.7 is quarters * 10 > 28
review_feedback(p) ==
    IF ~p.analysis_result THEN "empty_analysis"
    ELSE IF calculate_completeness(p) * 10 > 28 /\ ~p.conflicts THEN "approved"
    ELSE "rework"

\* ReviewAgent.process of the base orchestrator
BaseReviewReturns ==
    /\ pl.pc = "Running" /\ pl.stage = "Review" /\ pl.orch = "base"
    /\ pl' = Returned([pl EXCEPT !.review_feedback = review_feedback(pl)])
    /\ PipeFrame

\* the entries step 4 of the enhanced process_query writes (lines 866-868)
DynamicRagKeys == {"dynamic_rag_data", "dynamic_rag_sql", "dynamic_rag_metadata"}

\* a step 4 that rebuilds raw_data from the lookup alone
dynamic_rag_step_Mutant(p, outcome) ==
    IF outcome = "ok"
    THEN [p EXCEPT !.raw_data = DynamicRagKeys,
                   !.raw_writer = [k \in DynamicRagKeys |-> "DynamicRAG"]]
    ELSE p

\* step 4, lines 863-871; outcome is "none" when self.dynamic_rag is None,
\* "ok" when process_natural_language_query returns, "raises" when it raises
dynamic_rag_step(p, outcome) ==
    IF outcome = "ok" THEN assign(p, DynamicRagKeys, "DynamicRAG") ELSE p

DynamicRagOutcomes == {"none", "ok", "raises"}

\* step 4 of the enhanced process_query
DynamicRagReturns(outcome) ==
    /\ pl.pc = "Finishing" /\ pl.orch = "enhanced"
    /\ pl' = [dynamic_rag_step(pl, outcome) EXCEPT !.pc = "Structuring"]
    /\ PipeFrame

\* FiveW1HAgent.process (five_w1h_agent.py 31-49): two new attributes
FiveW1HReturns ==
    /\ pl.pc = "Structuring"
    /\ pl' = [pl EXCEPT !.pc = "Responding", !.structured_response = TRUE]
    /\ PipeFrame

\* answer generation, up to the return of process_query; an exception in the
\* steps after the third stage reaches the outer except clause
Finish(outcome) ==
    /\ pl.pc = IF pl.orch = "enhanced" THEN "Responding" ELSE "Finishing"
    /\ pl' = [pl EXCEPT !.pc = "Done", !.result = outcome]
    /\ PipeFrame

InitPipeline ==
    /\ PipeInit /\ au = AuditIdle /\ LearnIdle /\ qc = QcOff /\ ans = AnsOff /\ gen = GenOff /\ tr = TrOff
    /\ ga = GaOff /\ fw = FwOff /\ hp = HpOff /\ chat = ChatOff

NextPipeline ==
    \/ \E q \in Queries, tags \in TagCounts, rows \in BOOLEAN,
          vrate \in ViolationRates, crit \in BOOLEAN : Begin(q, tags, rows, vrate, crit)
    \/ StartStage
    \/ \E failAt \in 0..MaxCalls, statsFails \in BOOLEAN : ResearchReturns(failAt, statsFails)
    \/ \E pandasFails \in BOOLEAN : AnalysisReturns(pandasFails)
    \/ ReviewReturns
    \/ \E gap \in PipeGaps, speed \in PipeSpeeds : AuditStage(gap, speed)
    \/ \E qcFails \in BOOLEAN : BaseResearchReturns(qcFails)
    \/ BaseResearchRaises
    \/ \E conflicting \in BOOLEAN : BaseAnalysisReturns(conflicting)
    \/ BaseReviewReturns
    \/ \E outcome \in DynamicRagOutcomes : DynamicRagReturns(outcome)
    \/ FiveW1HReturns
    \/ \E outcome \in {"answer", "error"} : Finish(outcome)

\* the event loop resumes a coroutine whose awaited call has returned or
\* raised, so a run that can take a step eventually takes one
SpecPipeline == InitPipeline /\ [][NextPipeline]_vars /\ WF_vars(NextPipeline)

----------------------------------------------------------------------------
\* the stages whose process() has been entered, and those that have returned
Started(log) == SelectSeq(log, LAMBDA e : e[2] = "start")
ReturnedStages(log) == {log[i][1] : i \in {k \in 1..Len(log) : log[k][2] = "return"}}

StagesInOrder ==
    LET st == Started(pl.log)
    IN  /\ Len(st) <= Len(StageOrder)
        /\ \A i \in 1..Len(st) : st[i][1] = StageOrder[i]
        /\ \A k \in 1..Len(pl.log) :
              pl.log[k][2] = "start" =>
                 \/ k = 1
                 \/ /\ pl.log[k - 1][2] = "return"
                    /\ \E i \in 2..Len(StageOrder) :
                          pl.log[k][1] = StageOrder[i] /\ pl.log[k - 1][1] = StageOrder[i - 1]

(* C1: in one process_query run the stages are entered in the order        *)
(* Research, Analysis, Review, each one only after the previous one has     *)
(* returned, each at most once and none again; the run reaches Done and     *)
(* nothing runs after Done.                                                 *)
C1_StrictStageOrder ==
    /\ [](StagesInOrder)
    /\ [][pl.pc = "Done" => pl' = pl]_vars
    /\ <>(pl.pc = "Done")

C1_Witness ==
    /\ pl.pc = "Done"
    /\ pl.log = << <<"Research", "start">>, <<"Research", "return">>,
                   <<"Analysis", "start">>, <<"Analysis", "return">>,
                   <<"Review", "start">>, <<"Review", "return">> >>

RawDataKept ==
    \A k \in pl.raw_data : k \in pl'.raw_data /\ pl'.raw_writer[k] = pl.raw_writer[k]

(* C13: in a run of the enhanced orchestrator, once Research has returned   *)
(* no later step removes or reassigns an entry of raw_data; once Analysis   *)
(* has returned insights and confidence_score stay as they are; once Review *)
(* has returned quality_report stays as it is; the steps after Review only  *)
(* add entries and attributes.                                              *)
C13_LaterStagesOnlyAdd ==
    [][pl.orch = "enhanced" =>
         /\ "Research" \in ReturnedStages(pl.log) => RawDataKept
         /\ "Analysis" \in ReturnedStages(pl.log) =>
               /\ pl'.insights = pl.insights
               /\ pl'.confidence_score = pl.confidence_score
         /\ "Review" \in ReturnedStages(pl.log) =>
               /\ pl'.quality_report = pl.quality_report
               /\ pl.structured_response => pl'.structured_response]_vars

C13_Witness ==
    /\ pl.orch = "enhanced" /\ pl.pc = "Done"
    /\ DynamicRagKeys \cup {"all_sensors", "relevant_qc"} \subseteq pl.raw_data
    /\ pl.raw_writer["all_sensors"] = "Research"
    /\ pl.raw_writer["dynamic_rag_data"] = "DynamicRAG"
    /\ pl.insights.keys # {} /\ pl.quality_report.present
    /\ pl.structured_response

\* the four factors of the completeness score that are present
FactorsPresent ==
    {f \in {"data", "qc_rules", "notes", "analysis"} :
        \/ f = "data" /\ pl.sensor_data
        \/ f = "qc_rules" /\ pl.qc_data
        \/ f = "notes" /\ pl.research_notes # {}
        \/ f = "analysis" /\ pl.analysis_result}

(* C15: once the Review stage of the base orchestrator has returned, its    *)
(* verdict is "approved" exactly when more than 0.7 of the four factors     *)
(* (data, QC rules, notes, analysis; a quarter each) are present and no     *)
(* contradiction phrase was found in the analysis text, and "rework needed" *)
(* in every other case.                                                     *)
C15_ApprovedIffCompleteAndConsistent ==
    (pl.orch = "base" /\ "Review" \in ReturnedStages(pl.log)) =>
        /\ pl.review_feedback \in {"approved", "rework"}
        /\ pl.review_feedback = "approved" <=>
              (Cardinality(FactorsPresent) * 100 > 70 * 4 /\ ~pl.conflicts)

C15_Witness ==
    /\ pl.orch = "base" /\ "Review" \in ReturnedStages(pl.log)
    /\ Cardinality(FactorsPresent) = 3 /\ ~pl.conflicts
    /\ pl.review_feedback = "approved"

\* the enhanced orchestrator after initialize() has set up the audit system
AuditOn == pl.orch = "enhanced" /\ pl.audit_system_initialized

StageAgents == [i \in 1..Len(StageOrder) |-> AgentOf(StageOrder[i])]
PipeAgents == {StageAgents[i] : i \in 1..Len(StageAgents)}

\* how often the run has audited agent a
Audits(a) == Cardinality({i \in 1..Len(pl.audited) : pl.audited[i] = a})

\* the audits done so far are those of the returned stages, in stage order,
\* and the learning histories count them
AuditsFollowStages ==
    /\ Len(pl.audited) <= Len(StageAgents)
    /\ \A i \in 1..Len(pl.audited) : pl.audited[i] = StageAgents[i]
    /\ Len(pl.audited) = Cardinality(ReturnedStages(pl.log))
                            - (IF pl.pc = "Auditing" THEN 1 ELSE 0)
    /\ pl.pc = "Auditing" => pl.log[Len(pl.log)] = <<pl.stage, "return">>
    /\ pl.pc \in {"Finishing", "Structuring", "Responding", "Done"} =>
          pl.audited = StageAgents
    /\ \A a \in PipeAgents : Seen(a).total_tasks = Audits(a)

\* a step that audits: between the return of a stage and the next start, for
\* the agent of that stage, adding one to its total_tasks and to no other
AuditStep ==
    pl'.audited # pl.audited =>
        /\ pl.pc = "Auditing" /\ pl'.pc \in {"Ready", "Finishing"}
        /\ pl'.log = pl.log
        /\ pl'.audited = Append(pl.audited, AgentOf(pl.stage))
        /\ \A a \in PipeAgents :
              Seen(a)'.total_tasks =
                 Seen(a).total_tasks + (IF a = AgentOf(pl.stage) THEN 1 ELSE 0)

\* a step that enters a stage: every stage before it has been audited
StartStep ==
    pl'.pc = "Running" /\ pl.pc # "Running" =>
        \E i \in 1..Len(StageOrder) :
            /\ pl'.stage = StageOrder[i]
            /\ pl.audited = SubSeq(StageAgents, 1, i - 1)

(* C28: with the audit system initialised, one process_query run of the     *)
(* enhanced orchestrator audits ResearchAgent, AnalysisAgent and ReviewAgent*)
(* exactly once each; an audit is done after its stage has returned and     *)
(* before the next stage is entered, so the audits come in stage order, and *)
(* each audit adds exactly one to the total_tasks of its agent.             *)
C28_OneAuditPerStageInOrder ==
    /\ [](AuditOn => AuditsFollowStages)
    /\ [][AuditOn => (AuditStep /\ StartStep)]_vars
    /\ [](~AuditOn /\ pl.pc # "off" => pl.audited = <<>>)

C28_Witness ==
    /\ AuditOn /\ pl.pc = "Done"
    /\ pl.audited = <<"ResearchAgent", "AnalysisAgent", "ReviewAgent">>
    /\ \A a \in {"ResearchAgent", "AnalysisAgent", "ReviewAgent"} :
          a \in DOMAIN agent_histories /\ agent_histories[a].total_tasks = 1

----------------------------------------------------------------------------
(* SpecQC: one sensor reading and the QC rule of its tag go through the     *)
(* three places that grade a reading against the rule:                      *)
(*   EnhancedResearchAgent._collect_qc_focused_data  (violation filter)     *)
(*   AnalysisAgent._detect_qc_violations             (violation messages)   *)
(*   ResponseValidator.create_structured_response    (SensorData.status)    *)
(* A rule row comes from SELECT * on influx_qc_rule: every threshold is a   *)
(* number or NULL.  Rules are well formed: the thresholds that are present  *)
(* satisfy crit_min <= warn_min <= min_val <= max_val <= warn_max <= crit_max. *)

Null == -999            \* None
ThresholdGrid == {-2, 0, 2}
ReadingValues == {-3, -1, 0, 1, 3}

RuleKeys == <<"crit_min", "warn_min", "min_val", "max_val", "warn_max", "crit_max">>

WellFormed(rule) ==
    \A i \in 1..Len(RuleKeys), j \in 1..Len(RuleKeys) :
        (i < j /\ rule[RuleKeys[i]] # Null /\ rule[RuleKeys[j]] # Null)
            => rule[RuleKeys[i]] <= rule[RuleKeys[j]]

Rules ==
    {rule \in [crit_min : ThresholdGrid \cup {Null}, warn_min : ThresholdGrid \cup {Null},
               min_val : ThresholdGrid \cup {Null}, max_val : ThresholdGrid \cup {Null},
               warn_max : ThresholdGrid \cup {Null}, crit_max : ThresholdGrid \cup {Null}] :
        WellFormed(rule)}

\* Python truth value of a threshold: None and 0 are false
Truthy(x) == x # Null /\ x # 0

\* _collect_qc_focused_data, lines 226-245: float() of a NULL threshold raises
\* TypeError, which the except clause of the collector turns into
\* raw_data["error"]
research_severity(value, rule) ==
    IF \E i \in 1..Len(RuleKeys) : rule[RuleKeys[i]] = Null THEN "error"
    ELSE IF value > rule.crit_max \/ value < rule.crit_min THEN "critical"
    ELSE IF value > rule.warn_max \/ value < rule.warn_min THEN "warning"
    ELSE IF value > rule.max_val \/ value < rule.min_val THEN "violation"
    ELSE "none"

\* _detect_qc_violations, lines 308-323: the siren message is the critical
\* one, the warning-sign message the lesser one
detect_qc_violation(value, rule) ==
    IF rule.crit_min # Null /\ value < rule.crit_min THEN "critical"
    ELSE IF rule.crit_max # Null /\ value > rule.crit_max THEN "critical"
    ELSE IF rule.min_val # Null /\ value < rule.min_val THEN "warning"
    ELSE IF rule.max_val # Null /\ value > rule.max_val THEN "warning"
    ELSE "none"

\* create_structured_response, lines 234-247
structured_status(value, rule) ==
    IF (Truthy(rule.crit_min) /\ value < rule.crit_min)
         \/ (Truthy(rule.crit_max) /\ value > rule.crit_max) THEN "critical"
    ELSE IF (Truthy(rule.warn_min) /\ value < rule.warn_min)
              \/ (Truthy(rule.warn_max) /\ value > rule.warn_max) THEN "warning"
    ELSE "normal"

QcInit ==
    qc \in [pc : {"on"}, value : ReadingValues, rule : Rules,
            research : {"pending"}, analysis : {"pending"}, structured : {"pending"}]

QcFrame == UNCHANGED <<auditVars, learnVars, pipeVars, ansVars, genVars, trVars, gaVars, fwVars, hpVars, chatVars>>

ResearchClassifies ==
    /\ qc.pc = "on" /\ qc.research = "pending"
    /\ qc' = [qc EXCEPT !.research = research_severity(qc.value, qc.rule)]
    /\ QcFrame

AnalysisDetects ==
    /\ qc.pc = "on" /\ qc.analysis = "pending"
    /\ qc' = [qc EXCEPT !.analysis = detect_qc_violation(qc.value, qc.rule)]
    /\ QcFrame

StructuredStatus ==
    /\ qc.pc = "on" /\ qc.structured = "pending"
    /\ qc' = [qc EXCEPT !.structured = structured_status(qc.value, qc.rule)]
    /\ QcFrame

InitQC ==
    /\ QcInit /\ au = AuditIdle /\ LearnIdle /\ pl = PipeOff /\ ans = AnsOff /\ gen = GenOff /\ tr = TrOff
    /\ ga = GaOff /\ fw = FwOff /\ hp = HpOff /\ chat = ChatOff
NextQC == ResearchClassifies \/ AnalysisDetects \/ StructuredStatus
SpecQC == InitQC /\ [][NextQC]_vars

----------------------------------------------------------------------------
\* the reading lies outside a critical threshold of its rule
CriticalBreach ==
    \/ qc.rule.crit_min # Null /\ qc.value < qc.rule.crit_min
    \/ qc.rule.crit_max # Null /\ qc.value > qc.rule.crit_max

(* C9: a reading that breaches a critical threshold is graded critical by   *)
(* each of the three places once it has graded the reading (the research    *)
(* filter may instead have failed as a whole), for every threshold value,   *)
(* 0 included.                                                              *)
C9_CriticalNeverDowngraded ==
    CriticalBreach =>
      /\ qc.research \in {"pending", "error", "critical"}
      /\ qc.analysis \in {"pending", "critical"}
      /\ qc.structured \in {"pending", "critical"}

(* C9, the part that holds: the research filter and the analysis stage      *)
(* grade every critical breach critical, also against a threshold of 0.     *)
C9_ResearchAndAnalysis ==
    CriticalBreach =>
      /\ qc.research \in {"pending", "error", "critical"}
      /\ qc.analysis \in {"pending", "critical"}

C9_Witness ==
    /\ CriticalBreach /\ qc.rule.crit_min = 0 /\ qc.value < 0
    /\ qc.research = "critical" /\ qc.analysis = "critical"
    /\ qc.structured = "warning"

----------------------------------------------------------------------------
(* SpecAnswer: one generated answer on its way to the caller, through one   *)
(* of the two places that validate generated text:                          *)
(*   validator  generate_validated_response (response_validator.py 500-624) *)
(*   rag        RAGEngine._generate_openai_response (rag_engine.py 488-593) *)
(* The generated text is described by what the checks find in it: for the   *)
(* validator the numbers that are not in the context (n_large of them above *)
(* 10000, n_mid of them between 100 and 10000), for the RAG engine the set  *)
(* of HallucinationPrevention checks that fail.  Confidence is in units of  *)
(* 1/1000000.  The returned text is the set of its parts.                   *)

ConfOne == 1000000
RagThreshold == 700000         \* rag_engine.py 578
DisclaimerThreshold == 800000  \* hallucination_prevention.py 324

MaxNumbers == 7   \* unknown numbers in one generated text
MaxExtra == 2     \* issues a list-valued check reports beyond its first one

\* multiplier, in percent, of each check of validate_response, in call order
CheckOrder == <<"knowledge_base", "numeric", "sensor_range", "sensor_unit",
                "temporal", "logic", "certainty">>
CheckFactor ==
    [knowledge_base |-> 50, numeric |-> 70, sensor_range |-> 80, sensor_unit |-> 50,
     temporal |-> 90, logic |-> 60, certainty |-> 85]

RECURSIVE ScaleTimes(_, _, _)
ScaleTimes(conf, percent, n) ==
    IF n = 0 THEN conf ELSE ScaleTimes((conf * percent) \div 100, percent, n - 1)

\* ResponseValidator.detect_hallucination
detect_hallucination(n_large, n_mid) ==
    [has_hallucination |-> n_large > 0,
     n_issues |-> n_large,
     confidence |-> ScaleTimes(ScaleTimes(ConfOne, 80, n_large), 95, n_mid)]

RECURSIVE ApplyChecks(_, _, _)
ApplyChecks(conf, failing, i) ==
    IF i > Len(CheckOrder) THEN conf
    ELSE ApplyChecks(IF CheckOrder[i] \in failing
                     THEN (conf * CheckFactor[CheckOrder[i]]) \div 100 ELSE conf,
                     failing, i + 1)

\* the checks that hand back a list of issues (issues.extend); the others
\* append one issue each
ListChecks == {"numeric", "sensor_range", "sensor_unit"}

\* a validation whose certainty check lowers confidence without an issue
validate_response_Mutant(failing, n_extra) ==
    [is_valid |-> failing \ {"certainty"} = {},
     n_issues |-> Cardinality(failing \ {"certainty"}) + n_extra,
     confidence |-> ApplyChecks(ConfOne, failing, 1)]

\* HallucinationPrevention.validate_response: failing is the set of checks
\* that fail, n_extra the issues the failing list-valued checks report beyond
\* one each; is_valid = (len(issues) == 0)
validate_response(failing, n_extra) ==
    [is_valid |-> Cardinality(failing) + n_extra = 0,
     n_issues |-> Cardinality(failing) + n_extra,
     confidence |-> ApplyChecks(ConfOne, failing, 1)]

\* HallucinationPrevention.enhance_response_with_disclaimer
enhance_response_with_disclaimer(response, confidence) ==
    IF confidence < DisclaimerThreshold THEN response \cup {"disclaimer"} ELSE response

\* generate_validated_response that hands the generated text on whatever the check says
validated_return_Mutant(check) == {"generated"}

\* generate_validated_response, lines 606-616
validated_return(check) ==
    IF check.has_hallucination THEN {"template"} ELSE {"generated"}

\* _generate_openai_response, lines 566-589
rag_return(has_prevention, result) ==
    IF has_prevention /\ result.confidence < RagThreshold
    THEN enhance_response_with_disclaimer({"generated"}, result.confidence)
    ELSE {"generated"}

AnswerInputs ==
    [pc : {"called"}, path : {"validator"}, n_large : 0..MaxNumbers, n_mid : 0..MaxNumbers,
     failing : {{}}, n_extra : {0}, has_prevention : {FALSE}, api_failed : {FALSE},
     checked : {FALSE}, is_valid : {TRUE}, n_issues : {0}, confidence : {ConfOne},
     returned : {{}}]
    \cup
    [pc : {"called"}, path : {"rag"}, n_large : {0}, n_mid : {0},
     failing : SUBSET {CheckOrder[i] : i \in 1..Len(CheckOrder)},
     n_extra : 0..MaxExtra,
     has_prevention : BOOLEAN, api_failed : {FALSE}, checked : {FALSE}, is_valid : {TRUE},
     n_issues : {0}, confidence : {ConfOne}, returned : {{}}]

AnswerInit ==
    ans \in {a \in AnswerInputs :
               /\ a.n_large + a.n_mid <= MaxNumbers
               /\ (~a.has_prevention => a.failing = {})
               /\ (a.n_extra > 0 => a.failing \cap ListChecks # {})}

AnsFrame == UNCHANGED <<auditVars, learnVars, pipeVars, qcVars, genVars, trVars, gaVars, fwVars, hpVars, chatVars>>

\* the chat completion returns the generated text
ModelReturns ==
    /\ ans.pc = "called"
    /\ ans' = [ans EXCEPT !.pc = "generated"]
    /\ AnsFrame

\* the chat completion (or the missing API key) raises: the except clause
\* returns the template
ModelFails ==
    /\ ans.pc = "called"
    /\ ans' = [ans EXCEPT !.pc = "returned", !.api_failed = TRUE, !.returned = {"template"}]
    /\ AnsFrame

\* generate_validated_response from the hallucination check to its return
ValidatorReturns ==
    /\ ans.pc = "generated" /\ ans.path = "validator"
    /\ LET check == detect_hallucination(ans.n_large, ans.n_mid)
       IN  ans' = [ans EXCEPT !.pc = "returned", !.checked = TRUE,
                              !.n_issues = check.n_issues,
                              !.confidence = check.confidence,
                              !.returned = validated_return(check)]
    /\ AnsFrame

\* _generate_openai_response from the validation to its return
RagReturns ==
    /\ ans.pc = "generated" /\ ans.path = "rag"
    /\ LET result == validate_response(ans.failing, ans.n_extra)
       IN  ans' = [ans EXCEPT !.pc = "returned", !.checked = ans.has_prevention,
                              !.is_valid = IF ans.has_prevention THEN result.is_valid
                                           ELSE TRUE,
                              !.n_issues = IF ans.has_prevention THEN result.n_issues ELSE 0,
                              !.confidence = IF ans.has_prevention THEN result.confidence
                                             ELSE ConfOne,
                              !.returned = rag_return(ans.has_prevention, result)]
    /\ AnsFrame

InitAnswer ==
    /\ AnswerInit /\ au = AuditIdle /\ LearnIdle /\ pl = PipeOff /\ qc = QcOff /\ gen = GenOff /\ tr = TrOff
    /\ ga = GaOff /\ fw = FwOff /\ hp = HpOff /\ chat = ChatOff
NextAnswer == ModelReturns \/ ModelFails \/ ValidatorReturns \/ RagReturns
SpecAnswer == InitAnswer /\ [][NextAnswer]_vars

----------------------------------------------------------------------------
\* the generated text was validated and the validation failed
ValidationFailed ==
    ans.pc = "returned" /\ ans.checked
      /\ (ans.n_issues > 0 \/ ans.confidence < RagThreshold)

C16_ValidIffNoIssueIffFullConfidence ==
    (ans.pc = "returned" /\ ans.path = "rag" /\ ans.checked) =>
        /\ ans.is_valid <=> ans.n_issues = 0
        /\ ans.n_issues >= Cardinality(ans.failing)
        /\ ans.is_valid <=> ans.confidence = ConfOne
        /\ ~ans.is_valid => (0 < ans.confidence /\ ans.confidence < ConfOne)

C16_Witness ==
    /\ ans.pc = "returned" /\ ans.path = "rag" /\ ans.checked
    /\ ans.failing = {CheckOrder[i] : i \in 1..Len(CheckOrder)}
    /\ ~ans.is_valid /\ ans.n_issues > Len(CheckOrder)
    /\ ans.confidence = 64260

----------------------------------------------------------------------------
(* SpecRespond: one call of an outermost entry point, step by step, with    *)
(* the try/except structure of the source:                                  *)
(*   enhanced  EnhancedMultiAgentOrchestrator.process_query (811-925),      *)
(*             with generate_validated_response inlined                     *)
(*   base      MultiAgentOrchestrator.process_query (450-500)               *)
(*   rag       RAGEngine.generate_response (309-349)                        *)
(* gen.pc names the step about to run.  Every step may return or raise an   *)
(* Exception; a chat completion may return, fail, time out, or be           *)
(* unavailable because no API key is configured.  Branches the entry points *)
(* cannot take are left out: FiveW1HAgent.process always sets a non-empty   *)
(* structured_response and the five_w1h attribute, so the base orchestrator *)
(* never reaches its lines 491-497 and _generate_enhanced_response always   *)
(* returns at its line 932.                                                 *)
(* Ghost fields: model (outcome of the chat completion), raised_in (steps   *)
(* that raised), raised (an exception left the entry point).                *)

Entries == {"enhanced", "base", "rag"}

\* the ways a chat completion does not deliver a text
ModelDown == {"error", "timeout", "no_key"}

GenIdle(entry, client, key, audit_on, rag_on, w5h1) ==
    [pc |-> "called", entry |-> entry, openai_client |-> client, api_key |-> key,
     audit_system_initialized |-> audit_on, dynamic_rag |-> rag_on, use_w5h1 |-> w5h1,
     quick |-> FALSE, model |-> "not_called", raised_in |-> {}, raised |-> FALSE,
     result |-> "none"]

GenInit ==
    gen \in {GenIdle("enhanced", FALSE, key, audit_on, rag_on, FALSE) :
               key \in BOOLEAN, audit_on \in BOOLEAN, rag_on \in BOOLEAN}
            \cup {GenIdle("base", client, FALSE, FALSE, rag_on, FALSE) :
               client \in BOOLEAN, rag_on \in BOOLEAN}
            \cup {GenIdle("rag", FALSE, FALSE, FALSE, FALSE, w5h1) : w5h1 \in BOOLEAN}

\* return <value> of the entry point
returns(g, value) == [g EXCEPT !.pc = "returned", !.result = value]

\* the first step inside the outer try
first_step(g) ==
    CASE g.entry = "enhanced" -> "research"
      [] g.entry = "base" -> IF g.dynamic_rag THEN "discover_tags" ELSE "research"
      [] g.entry = "rag" -> "build_context"

\* where control goes when the step g.pc returns normally
after_return(g) ==
    CASE g.entry = "enhanced" ->
          (CASE g.pc = "research" ->
                  [g EXCEPT !.pc = IF g.audit_system_initialized THEN "audit_research"
                                   ELSE "analysis"]
             [] g.pc = "audit_research" -> [g EXCEPT !.pc = "analysis"]
             [] g.pc = "analysis" ->
                  [g EXCEPT !.pc = IF g.audit_system_initialized THEN "audit_analysis"
                                   ELSE "review"]
             [] g.pc = "audit_analysis" -> [g EXCEPT !.pc = "review"]
             [] g.pc = "review" ->
                  [g EXCEPT !.pc = IF g.audit_system_initialized THEN "audit_review"
                                   ELSE IF g.dynamic_rag THEN "dynamic_rag"
                                   ELSE "five_w1h"]
             [] g.pc = "audit_review" ->
                  [g EXCEPT !.pc = IF g.dynamic_rag THEN "dynamic_rag" ELSE "five_w1h"]
             [] g.pc = "dynamic_rag" -> [g EXCEPT !.pc = "five_w1h"]
             [] g.pc = "five_w1h" -> [g EXCEPT !.pc = "context_dict"]
             [] g.pc = "context_dict" -> [g EXCEPT !.pc = "create_structured"]
             [] g.pc = "create_structured" -> [g EXCEPT !.pc = "validator_model"]
             [] g.pc = "format_human" -> returns(g, "human_response")
             [] g.pc = "format_5w1h" -> [g EXCEPT !.pc = "summary"]
             [] g.pc = "summary" -> returns(g, "5w1h_response"))
      [] g.entry = "base" ->
          (CASE g.pc = "discover_tags" -> [g EXCEPT !.pc = "research"]
             [] g.pc = "research" -> [g EXCEPT !.pc = "analysis"]
             [] g.pc = "analysis" -> [g EXCEPT !.pc = "review"]
             [] g.pc = "review" -> [g EXCEPT !.pc = "five_w1h"]
             [] g.pc = "five_w1h" ->
                  IF g.openai_client THEN [g EXCEPT !.pc = "enhance_model"]
                  ELSE returns([g EXCEPT !.model = "no_key"], "structured_response")
             [] g.pc = "visualization" -> returns(g, "generated"))
      [] g.entry = "rag" ->
          (CASE g.pc = "build_context" -> [g EXCEPT !.pc = "quick_response"]
             [] g.pc = "contextual_response" ->
                  IF g.use_w5h1 THEN [g EXCEPT !.pc = "w5h1_format"]
                  ELSE returns(g, "contextual")
             [] g.pc = "w5h1_format" ->
                  returns(g, IF g.quick THEN "quick" ELSE "contextual"))

\* steps that are neither a chat completion nor the quick-response lookup
PlainSteps ==
    {"research", "audit_research", "analysis", "audit_analysis", "review", "audit_review",
     "dynamic_rag", "discover_tags", "five_w1h", "context_dict", "create_structured",
     "format_human", "format_5w1h", "summary", "visualization", "build_context",
     "contextual_response", "w5h1_format"}

ModelSteps == {"validator_model", "enhance_model"}

\* an entry point without its outer except clause
on_raise_Mutant(g) == [g EXCEPT !.pc = "returned", !.raised = TRUE]

\* the step g.pc raises an Exception: the innermost except clause around it
on_raise(g) ==
    CASE g.entry = "enhanced" ->
           \* lines 870-871: the failure is printed and the run goes on
           IF g.pc = "dynamic_rag" THEN [g EXCEPT !.pc = "five_w1h"]
           \* generate_validated_response raises at its line 513 or from its
           \* except clause: lines 907-909 call _generate_enhanced_response
           ELSE IF g.pc \in {"create_structured", "format_human"}
                THEN [g EXCEPT !.pc = "format_5w1h"]
           \* lines 922-925
           ELSE returns(g, "failure_message")
      [] g.entry = "base" ->
           \* lines 462-463
           IF g.pc = "discover_tags" THEN [g EXCEPT !.pc = "research"]
           \* lines 640-642
           ELSE IF g.pc = "visualization" THEN returns(g, "structured_response")
           \* lines 499-500
           ELSE returns(g, "failure_message")
      [] g.entry = "rag" ->
           \* lines 348-349
           returns(g, "failure_message")

\* a model-call failure handed on to the outer except clause
completion_failed_Mutant(g) == returns(g, "failure_message")

\* the chat completion did not deliver: response_validator.py 618-624 and
\* agent_orchestrator.py 640-642
completion_failed(g) ==
    IF g.pc = "validator_model" THEN [g EXCEPT !.pc = "format_human"]
    ELSE returns(g, "structured_response")

\* the chat completion delivered a text
completion_returned(g, hallucination) ==
    IF g.pc = "validator_model"
    THEN (IF hallucination THEN [g EXCEPT !.pc = "format_human"]
          ELSE returns(g, "generated"))
    ELSE [g EXCEPT !.pc = "visualization"]

GenFrame == UNCHANGED <<auditVars, learnVars, pipeVars, qcVars, ansVars, trVars, gaVars, fwVars, hpVars, chatVars>>

\* the entry point is called and enters its outer try
Enter ==
    /\ gen.pc = "called"
    /\ gen' = [gen EXCEPT !.pc = first_step(gen)]
    /\ GenFrame

StepReturns ==
    /\ gen.pc \in PlainSteps
    /\ gen' = after_return(gen)
    /\ GenFrame

StepRaises ==
    /\ gen.pc \in PlainSteps
    /\ gen' = on_raise([gen EXCEPT !.raised_in = gen.raised_in \cup {gen.pc}])
    /\ GenFrame

\* _try_quick_response returns a response (found) or None
QuickReturns(found) ==
    /\ gen.pc = "quick_response"
    /\ gen' = IF found
              THEN (IF gen.use_w5h1 THEN [gen EXCEPT !.pc = "w5h1_format", !.quick = TRUE]
                    ELSE returns([gen EXCEPT !.quick = TRUE], "quick"))
              ELSE [gen EXCEPT !.pc = "contextual_response"]
    /\ GenFrame

QuickRaises ==
    /\ gen.pc = "quick_response"
    /\ gen' = on_raise([gen EXCEPT !.raised_in = gen.raised_in \cup {gen.pc}])
    /\ GenFrame

\* the key is configured (generate_validated_response reads it from the
\* environment, the base orchestrator holds a client) and the completion
\* returns a text
CompletionReturns(hallucination) ==
    /\ gen.pc \in ModelSteps
    /\ gen.pc = "validator_model" => gen.api_key
    /\ hallucination => gen.pc = "validator_model"
    /\ gen' = completion_returned([gen EXCEPT !.model = "ok"], hallucination)
    /\ GenFrame

\* the completion raises, times out, or the key is missing
CompletionFails(cause) ==
    /\ gen.pc \in ModelSteps
    /\ cause = "no_key" <=> (gen.pc = "validator_model" /\ ~gen.api_key)
    /\ gen' = completion_failed([gen EXCEPT !.model = cause])
    /\ GenFrame

InitRespond ==
    /\ GenInit /\ au = AuditIdle /\ LearnIdle
    /\ pl = PipeOff /\ qc = QcOff /\ ans = AnsOff /\ tr = TrOff
    /\ ga = GaOff /\ fw = FwOff /\ hp = HpOff /\ chat = ChatOff

NextRespond ==
    \/ Enter
    \/ StepReturns
    \/ StepRaises
    \/ \E found \in BOOLEAN : QuickReturns(found)
    \/ QuickRaises
    \/ \E hallucination \in BOOLEAN : CompletionReturns(hallucination)
    \/ \E cause \in ModelDown : CompletionFails(cause)

SpecRespond == InitRespond /\ [][NextRespond]_vars

----------------------------------------------------------------------------
\* the answers that are built from the collected context alone
Templates == {"human_response", "structured_response", "5w1h_response"}

\* steps whose exception an inner except clause absorbs without changing
\* what is answered
AbsorbedSteps == {"dynamic_rag", "discover_tags"}

(* C11: when the chat completion fails, times out or is unavailable for     *)
(* lack of an API key, the call still returns, never with generated text,   *)
(* and, unless a step outside the completion raised as well, the answer is  *)
(* one of the templates built from the collected context.                   *)
C11_TemplateWhenModelDown ==
    (gen.pc = "returned" /\ gen.model \in ModelDown) =>
        /\ ~gen.raised
        /\ gen.result # "generated"
        /\ gen.raised_in \subseteq AbsorbedSteps => gen.result \in Templates

C11_Witness ==
    /\ gen.pc = "returned" /\ gen.model = "timeout" /\ gen.entry = "enhanced"
    /\ gen.result = "human_response"

\* stages, audits, formatters and answer generation, as far as no inner
\* except clause stands between them and the outermost one
EscapingSteps ==
    {"research", "analysis", "review", "audit_research", "audit_analysis", "audit_review",
     "five_w1h", "context_dict", "format_5w1h", "summary", "w5h1_format",
     "build_context", "quick_response", "contextual_response"}

(* C12: process_query / generate_response never raises to its caller, and   *)
(* when an exception escapes a stage, an audit, the formatter or answer     *)
(* generation the returned answer is the failure message.                   *)
C12_NeverRaises ==
    /\ ~gen.raised
    /\ (gen.pc = "returned" /\ gen.raised_in \cap EscapingSteps # {}) =>
          gen.result = "failure_message"

C12_Witness ==
    /\ gen.pc = "returned" /\ "audit_analysis" \in gen.raised_in
    /\ gen.result = "failure_message"

----------------------------------------------------------------------------
(* SpecTranslate: DynamicRAGEngine.process_natural_language_query for one   *)
(* question (dynamic_rag_engine.py 86-288).  A question is the sequence of  *)
(* the phrases in it that the engine reacts to: a time phrase (kind and     *)
(* number), a sensor tag (kind "tag", n the tag), an all-sensors keyword,   *)
(* an aggregation keyword, or a word that matches nothing.  A time interval *)
(* is the pair the engine formats into the text 'value unit'.  The query    *)
(* text is the record of its parts: view, output columns, the intervals it  *)
(* filters bucket by, the tag restriction, and whether it groups by tag.    *)

\* time_mappings, in dictionary order; group says whether the pattern has a
\* (\d+) group; patterns without one carry their whole interval as unit
time_mappings_Mutant ==
    << [kind |-> "recent_min", unit |-> "minutes", view |-> "influx_latest", group |-> TRUE],
       [kind |-> "recent_hour", unit |-> "hours", view |-> "influx_agg_10m", group |-> TRUE],
       [kind |-> "last_hour", unit |-> "hours", view |-> "influx_agg_10m", group |-> TRUE] >>

time_mappings ==
    << [kind |-> "recent_min", unit |-> "minutes", view |-> "influx_latest", group |-> TRUE],
       [kind |-> "recent_hour", unit |-> "hours", view |-> "influx_agg_1m", group |-> TRUE],
       [kind |-> "past_hour", unit |-> "hours", view |-> "influx_agg_10m", group |-> TRUE],
       [kind |-> "recent_day", unit |-> "days", view |-> "influx_agg_1h", group |-> TRUE],
       [kind |-> "past_day", unit |-> "days", view |-> "influx_agg_1h", group |-> TRUE],
       [kind |-> "recent_week", unit |-> "weeks", view |-> "influx_agg_1h", group |-> TRUE],
       [kind |-> "recent_month", unit |-> "months", view |-> "influx_agg_1d", group |-> TRUE],
       [kind |-> "yesterday", unit |-> "1 day", view |-> "influx_agg_10m", group |-> FALSE],
       [kind |-> "today", unit |-> "1 day", view |-> "influx_agg_1m", group |-> FALSE],
       [kind |-> "this_week", unit |-> "1 week", view |-> "influx_agg_1h", group |-> FALSE],
       [kind |-> "this_month", unit |-> "1 month", view |-> "influx_agg_1h", group |-> FALSE],
       [kind |-> "last_minute", unit |-> "minutes", view |-> "influx_latest", group |-> TRUE],
       [kind |-> "last_hour", unit |-> "hours", view |-> "influx_agg_1m", group |-> TRUE],
       [kind |-> "last_day", unit |-> "days", view |-> "influx_agg_10m", group |-> TRUE],
       [kind |-> "last_week", unit |-> "weeks", view |-> "influx_agg_1h", group |-> TRUE],
       [kind |-> "last_month", unit |-> "months", view |-> "influx_agg_1d", group |-> TRUE] >>

TimeKinds == {time_mappings[j].kind : j \in 1..Len(time_mappings)}

\* lines 114-115
DefaultInterval == [value |-> 1, unit |-> "hour"]
DefaultView == "influx_agg_1m"

\* the interval of a pattern without a group (line 123)
fixed_interval(unit) ==
    CASE unit = "1 day" -> [value |-> 24, unit |-> "hours"]
      [] unit = "1 week" -> [value |-> 1, unit |-> "week"]
      [] unit = "1 month" -> [value |-> 1, unit |-> "month"]

\* re.search: position of the leftmost phrase of the kind, 0 when none
FirstIndex(q, kind) ==
    IF \E i \in 1..Len(q) : q[i].kind = kind
    THEN CHOOSE i \in 1..Len(q) :
            q[i].kind = kind /\ \A k \in 1..(i - 1) : q[k].kind # kind
    ELSE 0

\* the first pattern of time_mappings that matches, 0 when none does
MatchedPattern(q) ==
    IF \E j \in 1..Len(time_mappings) : FirstIndex(q, time_mappings[j].kind) > 0
    THEN CHOOSE j \in 1..Len(time_mappings) :
            /\ FirstIndex(q, time_mappings[j].kind) > 0
            /\ \A k \in 1..(j - 1) : FirstIndex(q, time_mappings[k].kind) = 0
    ELSE 0

\* self.active_tags after discover_tags
active_tags == {100, 101}

\* a translation that falls back to the latest-value view
default_translation_Mutant == [time_interval |-> DefaultInterval, view |-> "influx_latest"]

\* lines 114-115: what parse_time_query starts from
default_translation == [time_interval |-> DefaultInterval, view |-> DefaultView]

\* DynamicRAGEngine.parse_time_query
parse_time_query(q) ==
    LET j == MatchedPattern(q)
        window ==
            IF j = 0 THEN default_translation
            ELSE LET pat == time_mappings[j]
                     token == q[FirstIndex(q, pat.kind)]
                 IN  [time_interval |-> IF pat.group
                                        THEN [value |-> token.n, unit |-> pat.unit]
                                        ELSE fixed_interval(pat.unit),
                      view |-> pat.view]
        named == {q[i].n : i \in {k \in 1..Len(q) : q[k].kind = "tag"}} \cap active_tags
    IN  [time_interval |-> window.time_interval,
         view |-> window.view,
         detected_tags |-> IF \E i \in 1..Len(q) : q[i].kind = "all_kw"
                           THEN active_tags ELSE named]

\* the keyword tests of lines 147-169; "min" is also found in "minute"
wants(q, fn) ==
    \E i \in 1..Len(q) :
        \/ q[i].kind = fn
        \/ fn = "min_kw" /\ q[i].kind = "last_minute"

agg_functions(q, view) ==
    LET asked == {fn \in {"avg_kw", "max_kw", "min_kw", "sum_kw"} : wants(q, fn)}
    IN  IF asked # {} THEN asked
        ELSE IF view = "influx_latest" THEN {"last_value", "timestamp"}
        ELSE {"avg_value", "min_value", "max_value"}

\* a restriction to every active tag, whatever was named
tag_condition_Mutant(detected_tags) == [restricted |-> TRUE, tags |-> active_tags]

\* lines 180-184 and 195-199: the IN (...) list, or no condition
tag_condition(detected_tags) ==
    IF detected_tags # {} THEN [restricted |-> TRUE, tags |-> detected_tags]
    ELSE [restricted |-> FALSE, tags |-> {}]

\* DynamicRAGEngine.generate_dynamic_sql
generate_dynamic_sql(q) ==
    LET p == parse_time_query(q)
    IN  IF p.view = "influx_latest"
        THEN [view |-> p.view, columns |-> agg_functions(q, p.view),
              bucket_since |-> {}, tag_condition |-> tag_condition(p.detected_tags),
              grouped |-> FALSE]
        ELSE [view |-> p.view, columns |-> agg_functions(q, p.view),
              bucket_since |-> {p.time_interval},
              tag_condition |-> tag_condition(p.detected_tags),
              grouped |-> TRUE]

\* an execute_query without its try
execute_query_Mutant(outcome) ==
    IF outcome = "fails" THEN [raised |-> TRUE, rows |-> 0]
    ELSE [raised |-> FALSE, rows |-> IF outcome = "rows" THEN 1 ELSE 0]

\* DynamicRAGEngine.execute_query: outcome of conn.fetch; rows is whether the
\* returned list is non-empty
execute_query(outcome) ==
    [raised |-> FALSE, rows |-> IF outcome = "rows" THEN 1 ELSE 0]

\* lines 256-284
summary_of(q, rows) ==
    IF rows > 0
    THEN (IF wants(q, "avg_kw") THEN "average"
          ELSE IF wants(q, "max_kw") \/ \E i \in 1..Len(q) : q[i].kind = "min_kw"
               THEN "minmax"
          ELSE "general")
    ELSE "no_data"

MaxPhrases == 2   \* phrases in one question
PhraseNumbers == {1, 5}

Phrases ==
    [kind : {"recent_min", "recent_hour", "past_hour", "recent_day",
             "last_minute", "last_hour", "last_day"}, n : PhraseNumbers]
    \cup [kind : {"yesterday", "today", "all_kw", "avg_kw", "other"}, n : {0}]
    \cup [kind : {"tag"}, n : active_tags]

Questions == UNION {[1..n -> Phrases] : n \in 0..MaxPhrases}

NoSql ==
    [view |-> "none", columns |-> {}, bucket_since |-> {},
     tag_condition |-> [restricted |-> FALSE, tags |-> {}], grouped |-> FALSE]

TrIdle(q) ==
    [pc |-> "called", query |-> q, time_interval |-> DefaultInterval, view |-> "none",
     detected_tags |-> {}, sql |-> NoSql, outcome |-> "none", data |-> 0,
     summary |-> "none", raised |-> FALSE]

TrInit == tr \in {TrIdle(q) : q \in Questions}

TrFrame == UNCHANGED <<auditVars, learnVars, pipeVars, qcVars, ansVars, genVars, gaVars, fwVars, hpVars,
                        chatVars>>

\* step 1: await self.discover_tags()
DiscoverReturns ==
    /\ tr.pc = "called"
    /\ tr' = [tr EXCEPT !.pc = "discovered"]
    /\ TrFrame

\* the tag discovery query raises: nothing catches it
DiscoverRaises ==
    /\ tr.pc = "called"
    /\ tr' = [tr EXCEPT !.pc = "raised", !.raised = TRUE]
    /\ TrFrame

\* steps 2 and 3: parse_time_query and generate_dynamic_sql
Translate ==
    /\ tr.pc = "discovered"
    /\ \E p \in {parse_time_query(tr.query)} :
          tr' = [tr EXCEPT !.pc = "translated", !.time_interval = p.time_interval,
                           !.view = p.view, !.detected_tags = p.detected_tags,
                           !.sql = generate_dynamic_sql(tr.query)]
    /\ TrFrame

\* step 4: results = await self.execute_query(sql)
Execute(outcome) ==
    /\ tr.pc = "translated"
    /\ \E r \in {execute_query(outcome)} :
          tr' = IF r.raised
                THEN [tr EXCEPT !.pc = "raised", !.raised = TRUE, !.outcome = outcome]
                ELSE [tr EXCEPT !.pc = "executed", !.outcome = outcome, !.data = r.rows]
    /\ TrFrame

\* step 5: the response with its summary is returned
Respond ==
    /\ tr.pc = "executed"
    /\ tr' = [tr EXCEPT !.pc = "returned", !.summary = summary_of(tr.query, tr.data)]
    /\ TrFrame

InitTranslate ==
    /\ TrInit /\ au = AuditIdle /\ LearnIdle
    /\ pl = PipeOff /\ qc = QcOff /\ ans = AnsOff /\ gen = GenOff
    /\ ga = GaOff /\ fw = FwOff /\ hp = HpOff /\ chat = ChatOff

NextTranslate ==
    \/ DiscoverReturns
    \/ DiscoverRaises
    \/ Translate
    \/ \E outcome \in {"rows", "empty", "fails"} : Execute(outcome)
    \/ Respond

SpecTranslate == InitTranslate /\ [][NextTranslate]_vars

----------------------------------------------------------------------------
\* the question has been translated
Translated == tr.pc \in {"translated", "executed", "returned"}

Has(q, kind, n) == \E i \in 1..Len(q) : q[i].kind = kind /\ q[i].n = n
HasKind(q, kinds) == \E i \in 1..Len(q) : q[i].kind \in kinds

\* the length, in minutes, of the interval PostgreSQL reads from 'value unit'
DurationMinutes(iv) ==
    iv.value * (CASE iv.unit \in {"minutes"} -> 1
                  [] iv.unit \in {"hour", "hours"} -> 60
                  [] iv.unit \in {"days"} -> 1440
                  [] iv.unit \in {"week", "weeks"} -> 10080
                  [] iv.unit \in {"month", "months"} -> 43200)

OneHourAtMinuteResolution ==
    /\ DurationMinutes(tr.time_interval) = 60
    /\ tr.view = "influx_agg_1m"
    /\ tr.detected_tags = {}

NamesNoSensor == ~HasKind(tr.query, {"tag", "all_kw"})

(* C17 as stated: every question that contains "recent 1 hour" (Korean) or  *)
(* "last 1 hour" and names no sensor and no all-sensors keyword translates  *)
(* to a one-hour window, the minute-resolution view and no identifiers.     *)
C17_RecentHourAlways ==
    (/\ Translated
     /\ Has(tr.query, "recent_hour", 1) \/ Has(tr.query, "last_hour", 1)
     /\ NamesNoSensor)
    => OneHourAtMinuteResolution

\* the kinds of phrase whose pattern stands before the given one in
\* time_mappings
ListedBefore(kind) ==
    IF kind = "recent_hour" THEN {"recent_min"}
    ELSE {"recent_min", "recent_hour", "past_hour", "recent_day", "past_day",
          "recent_week", "recent_month", "yesterday", "today", "this_week",
          "this_month", "last_minute"}

\* the phrase (kind, 1) is the one the translator picks: no phrase of an
\* earlier pattern is in the question and the leftmost phrase of the kind
\* carries the number 1
Decides(q, kind) ==
    /\ Has(q, kind, 1)
    /\ ~HasKind(q, ListedBefore(kind))
    /\ q[FirstIndex(q, kind)].n = 1

(* C17 as the code has it: the question translates to a one-hour window,    *)
(* the minute-resolution view and no identifiers when, in addition, it has  *)
(* no phrase of a pattern listed earlier and its leftmost phrase of that    *)
(* kind is the one-hour one.                                                *)
C17_RecentHourWhenFirstMatch ==
    (/\ Translated
     /\ Decides(tr.query, "recent_hour") \/ Decides(tr.query, "last_hour")
     /\ NamesNoSensor)
    => OneHourAtMinuteResolution

C17_Witness ==
    /\ Translated /\ NamesNoSensor
    /\ tr.query = << [kind |-> "other", n |-> 0], [kind |-> "recent_hour", n |-> 1] >>
    /\ tr.time_interval = [value |-> 1, unit |-> "hours"]
    /\ tr.view = "influx_agg_1m" /\ tr.detected_tags = {}

(* C18: translation is total.  Whenever the question is awaited by the     *)
(* translation step that step can be taken; it never raises; it yields one  *)
(* of the five views; and a question with no time phrase gets the one-hour  *)
(* window at minute resolution.                                             *)
C18_TranslationTotal ==
    /\ tr.pc = "discovered" => ENABLED Translate
    /\ tr.raised => tr.view = "none" \/ tr.outcome # "none"
    /\ Translated =>
          /\ tr.view \in {"influx_latest", "influx_agg_1m", "influx_agg_10m",
                          "influx_agg_1h", "influx_agg_1d"}
          /\ tr.sql.view = tr.view
          /\ ~HasKind(tr.query, TimeKinds) =>
                (tr.time_interval = [value |-> 1, unit |-> "hour"]
                   /\ DurationMinutes(tr.time_interval) = 60
                   /\ tr.view = "influx_agg_1m")

C18_Witness ==
    /\ Translated
    /\ tr.query = << [kind |-> "other", n |-> 0], [kind |-> "tag", n |-> 100] >>
    /\ tr.time_interval = [value |-> 1, unit |-> "hour"]
    /\ tr.view = "influx_agg_1m" /\ tr.detected_tags = {100}

\* the query text restricts rows to exactly the resolved identifiers, or not
\* at all when none was resolved
TagsRestrictedExactly ==
    IF tr.detected_tags # {}
    THEN tr.sql.tag_condition.restricted /\ tr.sql.tag_condition.tags = tr.detected_tags
    ELSE ~tr.sql.tag_condition.restricted

(* C19 as stated: for every question and every view, the latest-value view  *)
(* included, the query text filters rows by the resolved time window and    *)
(* restricts them to exactly the resolved identifiers (no restriction when  *)
(* none was resolved).                                                      *)
C19_WindowAndTagsFiltered ==
    Translated =>
        /\ tr.sql.bucket_since = {tr.time_interval}
        /\ TagsRestrictedExactly

(* C19, the part that holds: the identifier restriction is exact for every  *)
(* view; the time window is filtered on for the four aggregate views and    *)
(* the query on the latest-value view carries no time filter at all.        *)
C19_TagsExactWindowOnAggregates ==
    Translated =>
        /\ TagsRestrictedExactly
        /\ tr.view # "influx_latest" => tr.sql.bucket_since = {tr.time_interval}
        /\ tr.view = "influx_latest" => tr.sql.bucket_since = {}

C19_Witness ==
    /\ Translated
    /\ tr.query = << [kind |-> "recent_day", n |-> 5], [kind |-> "tag", n |-> 101] >>
    /\ tr.sql.view = "influx_agg_1h"
    /\ tr.sql.bucket_since = {[value |-> 5, unit |-> "days"]}
    /\ tr.sql.tag_condition = [restricted |-> TRUE, tags |-> {101}]

\* execution of the translated query failed
ExecutionFailed == tr.outcome = "fails"

(* C20: when executing the translated query fails, the answer operation     *)
(* returns (it does not raise), and what it returns has an empty result set *)
(* and the "no matching data" summary.                                      *)
C20_FailedExecutionAnswersEmpty ==
    ExecutionFailed =>
        /\ ~tr.raised /\ tr.pc \in {"executed", "returned"}
        /\ tr.data = 0
        /\ tr.pc = "executed" => ENABLED Respond
        /\ tr.pc = "returned" => tr.summary = "no_data"

C20_Witness ==
    /\ ExecutionFailed /\ tr.pc = "returned"
    /\ tr.data = 0 /\ tr.summary = "no_data"
    /\ tr.sql.view = "influx_latest"

----------------------------------------------------------------------------
(* SpecGaps: RealDataAuditSystem (real_data_audit_system.py)               *)
(*                                                                         *)
(* A timestamp is a number of seconds; the analysis window starts at 0, so *)
(* datetime.now() is 3600 * analysis_hours plus the seconds within the     *)
(* minute.  completeness_ratio is kept as the exact fraction num / den     *)
(* and compared with the band limits (in hundredths) by cross              *)
(* multiplication.  The per-hour and per-day completeness maps of          *)
(* DataGapAnalysis are not modelled.                                       *)

MaxHours == 2
MaxRuns == 2

\* self.quality_grades, in dict order; limits in hundredths
quality_grades ==
    << [lo |-> 98, hi |-> 100, grade |-> "EXCELLENT"],
       [lo |-> 95, hi |-> 98, grade |-> "GOOD"],
       [lo |-> 90, hi |-> 95, grade |-> "AVERAGE"],
       [lo |-> 80, hi |-> 90, grade |-> "POOR"],
       [lo |-> 0, hi |-> 80, grade |-> "CRITICAL"] >>

\* min_ratio <= completeness_ratio <= max_ratio
in_band(r, band) == band.lo * r.den <= 100 * r.num /\ 100 * r.num <= band.hi * r.den

assign_quality_grade_Mutant(r) ==
    LET hits == {i \in 1..Len(quality_grades) :
                    quality_grades[i].lo * r.den < 100 * r.num
                    /\ 100 * r.num <= quality_grades[i].hi * r.den}
    IN  IF hits = {} THEN "UNKNOWN"
        ELSE quality_grades[CHOOSE i \in hits : \A j \in hits : i <= j].grade

\* _assign_quality_grade: the first band of the dict that holds the ratio
assign_quality_grade(r) ==
    LET hits == {i \in 1..Len(quality_grades) : in_band(r, quality_grades[i])}
    IN  IF hits = {} THEN "UNKNOWN"
        ELSE quality_grades[CHOOSE i \in hits : \A j \in hits : i <= j].grade

\* the while loop: current_time runs from its first value in steps of one
\* minute for as long as current_time <= end_time
expected_loop(current_time, end_time) ==
    LET n == IF current_time <= end_time
             THEN ((end_time - current_time) \div 60) + 1 ELSE 0
    IN  [i \in 1..n |-> current_time + 60 * (i - 1)]

generate_expected_timestamps_Mutant(start_time, end_time) ==
    expected_loop(start_time - (start_time % 60), end_time - 60)

\* generate_expected_timestamps: every minute from the start's minute up to
\* and including end_time
generate_expected_timestamps(start_time, end_time) ==
    expected_loop(start_time - (start_time % 60), end_time)

severity_of(duration_minutes) ==
    IF duration_minutes > 60 THEN "critical"
    ELSE IF duration_minutes > 10 THEN "warning" ELSE "minor"

\* the dict appended for one finished run of missing minutes
gap_period(current_start, current_end) ==
    LET duration_minutes == ((current_end - current_start) \div 60) + 1
    IN  [start |-> current_start, end |-> current_end,
         duration_minutes |-> duration_minutes,
         severity |-> severity_of(duration_minutes)]

\* the for loop of _find_continuous_gap_periods and the append after it:
\* current_end is always the element before the one looked at, so a run ends
\* at i - 1 exactly when sorted_missing[i] is not one minute after
\* sorted_missing[i - 1]; the periods come out in the order of their starts
gap_loop(sorted_missing) ==
    LET n == Len(sorted_missing)
        starts == SelectSeq([i \in 1..n |-> i],
                            LAMBDA i : i = 1 \/ sorted_missing[i] # sorted_missing[i - 1] + 60)
    IN  [k \in 1..Len(starts) |->
            gap_period(sorted_missing[starts[k]],
                       sorted_missing[IF k < Len(starts) THEN starts[k + 1] - 1 ELSE n])]

severity_order(severity) ==
    CASE severity = "critical" -> 3
      [] severity = "warning" -> 2
      [] severity = "minor" -> 1

\* the sort key (severity_order, duration_minutes), compared as tuples
key_greater(a, b) ==
    \/ severity_order(a.severity) > severity_order(b.severity)
    \/ /\ severity_order(a.severity) = severity_order(b.severity)
       /\ a.duration_minutes > b.duration_minutes

\* list.sort(key=..., reverse=True): descending, equal keys keep their order
sort_desc(s) ==
    LET n == Len(s)
        place == [i \in 1..n |->
                    1 + Cardinality({j \in 1..n : key_greater(s[j], s[i])})
                      + Cardinality({j \in 1..(i - 1) :
                            ~key_greater(s[j], s[i]) /\ ~key_greater(s[i], s[j])})]
    IN  [k \in 1..n |-> s[CHOOSE i \in 1..n : place[i] = k]]

find_continuous_gap_periods_Mutant(missing_timestamps) ==
    IF missing_timestamps = <<>> THEN <<>>
    ELSE LET sorted_missing == SortSeq(missing_timestamps, LAMBDA a, b : a < b)
             gap_periods == gap_loop(sorted_missing)
         IN  SubSeq(gap_periods, 1, Min(10, Len(gap_periods)))

\* _find_continuous_gap_periods
find_continuous_gap_periods(missing_timestamps) ==
    IF missing_timestamps = <<>> THEN <<>>
    ELSE LET sorted_missing == SortSeq(missing_timestamps, LAMBDA a, b : a < b)
             gap_periods == sort_desc(gap_loop(sorted_missing))
         IN  SubSeq(gap_periods, 1, Min(10, Len(gap_periods)))

\* minutes of the window the time-series store holds no sample for
RunStarts == {0, 1, 30, 50}
RunLens == {1, 2, 11, 60, 61}
Combs == { [period |-> 1, width |-> 0, upto |-> 0],
           [period |-> 2, width |-> 1, upto |-> 40],
           [period |-> 4, width |-> 2, upto |-> 48],
           [period |-> 15, width |-> 11, upto |-> 120] }
Runs == RunStarts \X RunLens
AbsentMinutes(runs, comb) ==
    {m \in 0..(60 * (MaxHours + 1)) :
        \/ \E r \in runs : r[1] <= m /\ m < r[1] + r[2]
        \/ m < comb.upto /\ m % comb.period < comb.width}

Ratios == {[num |-> n, den |-> 1000] : n \in 0..1000}

GaIdle(kind, hours, now_sec, absent, ratio) ==
    [kind |-> kind, pc |-> "idle", analysis_hours |-> hours, now_sec |-> now_sec,
     absent |-> absent, start_time |-> 0, end_time |-> 0,
     expected_timestamps |-> <<>>, actual_timestamps |-> <<>>,
     missing_timestamps |-> <<>>, expected_data_points |-> 0,
     actual_data_points |-> 0, missing_data_points |-> 0,
     completeness_ratio |-> ratio, gap_periods |-> <<>>,
     quality_grade |-> "UNKNOWN"]

GaInit ==
    \/ \E hours \in 1..MaxHours, now_sec \in {0, 30}, runs \in SUBSET Runs, comb \in Combs :
          /\ Cardinality(runs) <= MaxRuns
          /\ ga = GaIdle("analysis", hours, now_sec, AbsentMinutes(runs, comb),
                         [num |-> 0, den |-> 1])
    \/ \E r \in Ratios : ga = GaIdle("grade", 1, 0, {}, r)

GaFrame == UNCHANGED <<auditVars, learnVars, pipeVars, qcVars, ansVars, genVars, trVars, fwVars, hpVars,
                        chatVars>>

\* analyze_sensor_data_gaps up to its await: the window and the expected minutes
AnalyzeCalled ==
    /\ ga.kind = "analysis" /\ ga.pc = "idle"
    /\ \E now \in {3600 * ga.analysis_hours + ga.now_sec} :
       \E end_time \in {now - (now % 60)} :
       \E start_time \in {end_time - 3600 * ga.analysis_hours} :
       \E expected \in {generate_expected_timestamps(start_time, end_time)} :
          ga' = [ga EXCEPT !.pc = "querying", !.start_time = start_time,
                           !.end_time = end_time,
                           !.expected_timestamps = expected,
                           !.expected_data_points = Len(expected)]
    /\ GaFrame

\* SELECT DISTINCT DATE_TRUNC('minute', ts) ... WHERE ts >= start AND ts <= end
\* ORDER BY normalized_ts
get_actual_timestamps(g) ==
    LET first == g.start_time \div 60
        last == g.end_time \div 60
    IN  SelectSeq([i \in 1..(last - first + 1) |-> 60 * (first + i - 1)],
                  LAMBDA ts : (ts \div 60) \notin g.absent)

\* analyze_sensor_data_gaps from the return of _get_actual_timestamps on
after_timestamps(g, actual_timestamps) ==
    LET actual_timestamp_set == {actual_timestamps[i] : i \in 1..Len(actual_timestamps)}
        missing == SelectSeq(g.expected_timestamps,
                             LAMBDA ts : ts \notin actual_timestamp_set)
        ratio == [num |-> Len(actual_timestamps), den |-> g.expected_data_points]
    IN  [g EXCEPT !.pc = "done",
                  !.actual_timestamps = actual_timestamps,
                  !.actual_data_points = Len(actual_timestamps),
                  !.missing_timestamps = missing,
                  !.missing_data_points = Len(missing),
                  !.completeness_ratio = ratio,
                  !.gap_periods = find_continuous_gap_periods(missing),
                  !.quality_grade = assign_quality_grade(ratio)]

TimestampsReturn ==
    /\ ga.kind = "analysis" /\ ga.pc = "querying"
    /\ \E actual \in {get_actual_timestamps(ga)} : ga' = after_timestamps(ga, actual)
    /\ GaFrame

\* the query raises: _get_actual_timestamps prints the error and returns []
TimestampsRaise ==
    /\ ga.kind = "analysis" /\ ga.pc = "querying"
    /\ ga' = after_timestamps(ga, <<>>)
    /\ GaFrame

\* _assign_quality_grade on a ratio of its own (the heat map's overall_grade)
AssignQualityGrade ==
    /\ ga.kind = "grade" /\ ga.pc = "idle"
    /\ ga' = [ga EXCEPT !.pc = "done",
                        !.quality_grade = assign_quality_grade(ga.completeness_ratio)]
    /\ GaFrame

InitGaps ==
    /\ GaInit /\ au = AuditIdle /\ LearnIdle
    /\ pl = PipeOff /\ qc = QcOff /\ ans = AnsOff /\ gen = GenOff /\ tr = TrOff
    /\ fw = FwOff /\ hp = HpOff /\ chat = ChatOff

NextGaps == AnalyzeCalled \/ TimestampsReturn \/ TimestampsRaise \/ AssignQualityGrade
SpecGaps == InitGaps /\ [][NextGaps]_vars

----------------------------------------------------------------------------
(* Claims on SpecGaps *)

Analysed == ga.kind = "analysis" /\ ga.pc = "done"

\* C21 as stated: a window of N minutes expects N samples and the ratio is
\* the number of actual distinct minute timestamps over that count, so that
\* 57 timestamps in a one-hour window give 0.95.
C21_WindowOfNMinutesExpectsN ==
    Analysed =>
        /\ ga.expected_data_points = 60 * ga.analysis_hours
        /\ ga.completeness_ratio.num = ga.actual_data_points
        /\ ga.completeness_ratio.den = 60 * ga.analysis_hours
        /\ (ga.analysis_hours = 1 /\ ga.actual_data_points = 57
               => 100 * ga.completeness_ratio.num = 95 * ga.completeness_ratio.den)

\* C21, the part the code keeps: completeness_ratio is the number of actual
\* distinct minute timestamps divided by the number of expected timestamps,
\* and the expected timestamps are every minute of the window with both ends
\* included, 60 * hours + 1 of them.
C21_RatioIsActualOverExpected ==
    Analysed =>
        /\ ga.expected_data_points = Len(ga.expected_timestamps)
        /\ ga.expected_data_points = 60 * ga.analysis_hours + 1
        /\ \A i \in 1..Len(ga.expected_timestamps) :
              ga.expected_timestamps[i] = ga.start_time + 60 * (i - 1)
        /\ ga.actual_data_points =
              Cardinality({ga.actual_timestamps[i] : i \in 1..Len(ga.actual_timestamps)})
        /\ ga.completeness_ratio =
              [num |-> ga.actual_data_points, den |-> ga.expected_data_points]
        /\ ga.missing_data_points = ga.expected_data_points - ga.actual_data_points

\* one hour, 57 of the 61 expected minutes present: 57/61, graded AVERAGE
C21_Witness ==
    /\ Analysed /\ ga.analysis_hours = 1
    /\ ga.actual_data_points = 57 /\ ga.expected_data_points = 61
    /\ ga.completeness_ratio = [num |-> 57, den |-> 61]
    /\ ga.quality_grade = "AVERAGE"

Graded == ga.pc = "done" /\ ga.completeness_ratio.num <= ga.completeness_ratio.den

AtLeast(r, hundredths) == 100 * r.num >= hundredths * r.den

\* C22: every ratio in [0,1] gets the grade of exactly one band, a boundary
\* value getting the higher band (0.98 EXCELLENT, 0.95 GOOD, 0.90 AVERAGE,
\* 0.80 POOR, below that CRITICAL), and none is graded UNKNOWN.
C22_GradeBandsBoundaryUp ==
    Graded =>
        LET r == ga.completeness_ratio
        IN  /\ ga.quality_grade # "UNKNOWN"
            /\ ga.quality_grade = "EXCELLENT" <=> AtLeast(r, 98)
            /\ ga.quality_grade = "GOOD" <=> AtLeast(r, 95) /\ ~AtLeast(r, 98)
            /\ ga.quality_grade = "AVERAGE" <=> AtLeast(r, 90) /\ ~AtLeast(r, 95)
            /\ ga.quality_grade = "POOR" <=> AtLeast(r, 80) /\ ~AtLeast(r, 90)
            /\ ga.quality_grade = "CRITICAL" <=> ~AtLeast(r, 80)

C22_Witness ==
    /\ ga.kind = "grade" /\ ga.pc = "done"
    /\ ga.completeness_ratio = [num |-> 950, den |-> 1000]
    /\ ga.quality_grade = "GOOD"

Missing == {ga.missing_timestamps[i] : i \in 1..Len(ga.missing_timestamps)}
\* first minutes of the maximal runs of consecutive missing minutes
RunFirsts == {t \in Missing : t - 60 \notin Missing}
Spanned(p) == {t \in Missing : p.start <= t /\ t <= p.end}
IsMaximalRun(p) ==
    /\ p.start \in Missing /\ p.end \in Missing /\ p.start <= p.end
    /\ \A k \in 0..((p.end - p.start) \div 60) : p.start + 60 * k \in Missing
    /\ p.start - 60 \notin Missing /\ p.end + 60 \notin Missing
NotLessSevere(p, q) ==
    \/ severity_order(p.severity) > severity_order(q.severity)
    \/ /\ p.severity = q.severity /\ p.duration_minutes >= q.duration_minutes

\* C29: the gap periods are maximal runs of consecutive missing minutes,
\* pairwise disjoint, each with duration_minutes the number of missing
\* minutes it spans and the severity of that duration (critical over 60,
\* warning over 10, else minor); at most 10 are returned, the most severe
\* and then longest first, and a run left out is no longer than a returned one.
C29_GapPeriodsRanked ==
    Analysed =>
        LET P == ga.gap_periods
        IN  /\ Len(P) = Min(10, Cardinality(RunFirsts))
            /\ \A i \in 1..Len(P) :
                  /\ IsMaximalRun(P[i])
                  /\ P[i].duration_minutes = Cardinality(Spanned(P[i]))
                  /\ P[i].severity = (IF P[i].duration_minutes > 60 THEN "critical"
                                      ELSE IF P[i].duration_minutes > 10 THEN "warning"
                                      ELSE "minor")
            /\ \A i, j \in 1..Len(P) :
                  i < j => /\ Spanned(P[i]) \cap Spanned(P[j]) = {}
                           /\ NotLessSevere(P[i], P[j])
            /\ \A t \in RunFirsts :
                  (\A i \in 1..Len(P) : P[i].start # t) =>
                      \A i \in 1..Len(P) :
                          \E e \in Missing :
                              /\ IsMaximalRun([start |-> t, end |-> e])
                              /\ ((e - t) \div 60) + 1 <= P[i].duration_minutes

\* more than ten runs of all three severities: ten returned, critical first
C29_Witness ==
    /\ Analysed /\ Cardinality(RunFirsts) > 10 /\ Len(ga.gap_periods) = 10
    /\ ga.gap_periods[1].severity = "critical"
    /\ ga.gap_periods[2].severity = "warning"
    /\ ga.gap_periods[10].severity = "minor"

----------------------------------------------------------------------------
(* SpecFormat: FiveW1HAgent (five_w1h_agent.py)                            *)
(*                                                                         *)
(* A field of FiveW1HResponse is kept as the list of pieces its extractor  *)
(* joins; a piece is a record of the literal text, the tag names and the   *)
(* number formatted into it.  Every literal of the source is a non-empty   *)
(* text, so the joined string is empty exactly when the list is empty.     *)
(* A query is the set of the words it contains that the extractors look    *)
(* for.  The clock counts seconds, the unit of the '%H:%M:%S' format.      *)
(* Korean literals are written in English: "whole system" 시스템 전체,       *)
(* "collecting data" 데이터 수집 중, "operating within normal range" 정상    *)
(* 범위 내 동작, "normal" 정상, "warning_kw" 경고, "danger" 위험,            *)
(* "increase" 증가, "decrease" 감소, "unstable" 불안정, "cooling" 냉각,      *)
(* "communication" 통신, "calibration" 교정, "temperature" 온도,             *)
(* "pressure" 압력, "flow" 유량, "1sigan" 1시간, "24sigan" 24시간, "ju" 주.  *)

MaxClock == 2

Piece(text) == [text |-> text, tags |-> <<>>, n |-> 0]
PieceOf(text, tags) == [text |-> text, tags |-> tags, n |-> 0]
PieceAt(text, n) == [text |-> text, tags |-> <<>>, n |-> n]

\* str.upper() and str.lower() on the words of a query
upper(words) == {CASE w = "d101" -> "D101" [] w = "day" -> "DAY" [] OTHER -> w : w \in words}
lower(words) == {CASE w = "D100" -> "d100" [] w = "DAY" -> "day" [] OTHER -> w : w \in words}

\* hasattr(context, ...) for the three kinds of context object
has_raw_data(c) == c.kind = "enhanced"
has_base_fields(c) == c.kind = "base"
has_query(c) == c.kind # "bare"
\* `hasattr(context, 'raw_data') and context.raw_data`: a non-empty dict
raw_data_truthy(c) == has_raw_data(c) /\ c.raw_keys # {}

Front(s, n) == SubSeq(s, 1, Min(n, Len(s)))

\* append the tag names of rows to sensor_tags, skipping empty and known ones
RECURSIVE add_tags(_, _)
add_tags(sensor_tags, rows) ==
    IF rows = <<>> THEN sensor_tags
    ELSE LET tag == Head(rows).tag_name
             known == \E i \in 1..Len(sensor_tags) : sensor_tags[i] = tag
         IN  add_tags(IF tag # "" /\ ~known THEN Append(sensor_tags, tag) ELSE sensor_tags,
                      Tail(rows))

\* _extract_who
extract_who(c) ==
    LET from_rag == IF raw_data_truthy(c) /\ "dynamic_rag_data" \in c.raw_keys
                    THEN add_tags(<<>>, c.rag_data) ELSE <<>>
        sensor_tags == IF has_base_fields(c) /\ c.sensor_data # <<>>
                       THEN add_tags(from_rag, c.sensor_data) ELSE from_rag
        mentioned_tags == SelectSeq(sensor_tags, LAMBDA tag : tag \in upper(c.query))
    IN  IF has_query(c) /\ mentioned_tags # <<>>
        THEN <<PieceOf("sensors: ", mentioned_tags)>>
        ELSE IF sensor_tags # <<>>
             THEN <<PieceOf("related sensors: ", Front(sensor_tags, 5))>>
             ELSE <<Piece("whole system")>>

\* one finding per row that has a tag and a value
RECURSIVE value_findings(_, _)
value_findings(rows, numeric_format) ==
    IF rows = <<>> THEN <<>>
    ELSE LET r == Head(rows)
         IN  (IF r.tag_name # "" /\ r.value # "none"
              THEN <<PieceOf(IF numeric_format /\ r.value = "number"
                             THEN "{tag}: {value:.2f}" ELSE "{tag}: {value}",
                             <<r.tag_name>>)>>
              ELSE <<>>) \o value_findings(Tail(rows), numeric_format)

extract_what_Mutant(c) ==
    IF has_base_fields(c) /\ c.sensor_data # <<>>
    THEN value_findings(Front(c.sensor_data, 3), FALSE) ELSE <<>>

\* _extract_what
extract_what(c) ==
    LET data == IF raw_data_truthy(c)
                THEN IF "dynamic_rag_data" \in c.raw_keys
                     THEN value_findings(Front(c.rag_data, 3), TRUE) ELSE <<>>
                ELSE IF has_base_fields(c) /\ c.sensor_data # <<>>
                     THEN value_findings(Front(c.sensor_data, 3), FALSE) ELSE <<>>
        on_violations == IF has_base_fields(c) /\ c.qc_violations # <<>>
              THEN <<PieceAt("QC violations: {n}", Len(c.qc_violations))>> ELSE <<>>
        state == IF ~has_base_fields(c) THEN <<>>
                 ELSE IF "normal" \in c.analysis_result THEN <<Piece("state: normal")>>
                 ELSE IF {"warning_kw", "WARNING"} \cap c.analysis_result # {}
                      THEN <<Piece("state: warning")>>
                 ELSE IF {"danger", "CRITICAL"} \cap c.analysis_result # {}
                      THEN <<Piece("state: danger")>>
                 ELSE <<>>
        findings == data \o on_violations \o state
    IN  IF findings # <<>> THEN findings ELSE <<Piece("collecting data")>>

\* _extract_where
extract_where(c) ==
    LET origin ==
            IF raw_data_truthy(c)
            THEN IF "dynamic_rag_metadata" \in c.raw_keys
                 THEN (IF "view_used" \in c.rag_meta
                       THEN <<PieceOf("View: ", <<"meta.view_used">>)>> ELSE <<>>)
                      \o <<Piece("TimescaleDB (Dynamic RAG)")>>
                 ELSE IF "dynamic_rag_sql" \in c.raw_keys
                      THEN <<Piece("TimescaleDB (live query)")>>
                      ELSE <<Piece("TimescaleDB")>>
            ELSE IF has_base_fields(c) THEN <<Piece(c.data_source)>>
            ELSE <<Piece("TimescaleDB")>>
        view == IF has_base_fields(c)
                THEN <<PieceOf("View: ", <<c.view_used>>)>> ELSE <<>>
        tables == IF has_base_fields(c)
                  THEN (IF "sensor_data" \in c.research_notes
                        THEN <<Piece("influx_latest")>> ELSE <<>>)
                       \o (IF "qc_rules" \in c.research_notes
                           THEN <<Piece("influx_qc_rule")>> ELSE <<>>)
                  ELSE <<>>
        sources == origin \o view \o tables
    IN  IF sources # <<>> THEN sources ELSE <<Piece("Database")>>

extract_when_Mutant(c, now) ==
    IF has_base_fields(c) THEN <<PieceOf("range: ", <<c.time_range>>)>>
    ELSE <<Piece("query time")>>

\* _extract_when; now is datetime.now() at the call
extract_when(c, now) ==
    LET stamp == <<PieceAt("query time: %Y-%m-%d %H:%M:%S", now)>>
        rag == IF "dynamic_rag_data" \in c.raw_keys /\ c.rag_data # <<>>
               THEN (IF c.rag_data[1].stamp = "timestamp"
                     THEN <<PieceOf("data time: ", <<"timestamp">>)>>
                     ELSE IF c.rag_data[1].stamp = "latest_bucket"
                          THEN <<PieceOf("bucket time: ", <<"latest_bucket">>)>>
                          ELSE <<>>)
               ELSE <<>>
        meta == IF "dynamic_rag_metadata" \in c.raw_keys
                THEN (IF "time_range" \in c.rag_meta
                      THEN <<PieceOf("time range: ", <<"meta.time_range">>)>> ELSE <<>>)
                     \o (IF "view_used" \in c.rag_meta
                         THEN <<PieceOf("data source: ", <<"meta.view_used">>)>> ELSE <<>>)
                ELSE <<>>
        data == IF raw_data_truthy(c) THEN rag \o meta
                ELSE IF has_base_fields(c) /\ c.sensor_data # <<>>
                     THEN (IF c.sensor_data[1].stamp = "str"
                           THEN <<PieceOf("data: ", <<"ts">>)>>
                           ELSE IF c.sensor_data[1].stamp = "datetime"
                                THEN <<PieceOf("data: ", <<"ts %H:%M:%S">>)>>
                                ELSE <<>>)
                     ELSE <<>>
        range == IF has_base_fields(c) THEN <<PieceOf("range: ", <<c.time_range>>)>>
                 ELSE IF ~has_query(c) THEN <<>>
                 ELSE IF {"1sigan", "1 hour"} \cap lower(c.query) # {}
                      THEN <<Piece("range: last hour")>>
                 ELSE IF {"24sigan", "day"} \cap lower(c.query) # {}
                      THEN <<Piece("range: last 24 hours")>>
                 ELSE IF {"ju", "week"} \cap lower(c.query) # {}
                      THEN <<Piece("range: last week")>>
                 ELSE <<>>
    IN  stamp \o data \o range

\* one reason per violation that is above max_val or below min_val
RECURSIVE violation_reasons(_)
violation_reasons(violations) ==
    IF violations = <<>> THEN <<>>
    ELSE LET v == Head(violations)
         IN  (IF v.value > v.max_val THEN <<PieceOf("above max_val", <<v.tag_name>>)>>
              ELSE IF v.value < v.min_val THEN <<PieceOf("below min_val", <<v.tag_name>>)>>
              ELSE <<>>) \o violation_reasons(Tail(violations))

has_knowledge(c) == has_base_fields(c) /\ "domain_knowledge" \in c.research_notes

\* _extract_why
extract_why(c) ==
    LET on_violations == IF has_base_fields(c) /\ c.qc_violations # <<>>
              THEN violation_reasons(Front(c.qc_violations, 2)) ELSE <<>>
        known == IF has_knowledge(c)
                 THEN (IF "cooling" \in c.knowledge
                       THEN <<Piece("cooling system may need a check")>> ELSE <<>>)
                      \o (IF "communication" \in c.knowledge THEN <<Piece("possible communication fault")>> ELSE <<>>)
                      \o (IF "calibration" \in c.knowledge
                          THEN <<Piece("sensor calibration due")>> ELSE <<>>)
                 ELSE <<>>
        pattern == IF ~has_base_fields(c) THEN <<>>
                   ELSE IF "increase" \in c.analysis_result
                        THEN <<Piece("steadily increasing")>>
                   ELSE IF "decrease" \in c.analysis_result
                        THEN <<Piece("steadily decreasing")>>
                   ELSE IF "unstable" \in c.analysis_result
                        THEN <<Piece("high variability")>>
                   ELSE <<>>
        reasons == on_violations \o known \o pattern
    IN  IF reasons # <<>> THEN reasons ELSE <<Piece("operating within normal range")>>

\* _extract_how
extract_how(c) ==
    LET critical_count ==
            Cardinality({i \in 1..Len(c.qc_violations) :
                            2 * c.qc_violations[i].value > 3 * c.qc_violations[i].max_val})
        on_violations == IF has_base_fields(c) /\ c.qc_violations # <<>>
              THEN IF critical_count > 0
                   THEN <<Piece("1. inspect on site now"), Piece("2. consider emergency stop")>>
                   ELSE <<Piece("1. monitor sensor values closely"), Piece("2. check inspection schedule")>>
              ELSE <<>>
        known == IF has_knowledge(c)
                 THEN (IF "temperature" \in c.knowledge \/ "D100" \in c.query
                       THEN <<Piece("3. check the cooling system")>> ELSE <<>>)
                      \o (IF "pressure" \in c.knowledge \/ "D101" \in c.query
                          THEN <<Piece("3. check the pressure valve")>> ELSE <<>>)
                      \o (IF "flow" \in c.knowledge \/ "D102" \in c.query
                          THEN <<Piece("3. check flow meter calibration")>> ELSE <<>>)
                 ELSE <<>>
        actions == on_violations \o known
    IN  IF actions # <<>> THEN actions
        ELSE <<Piece("1. keep the current state"), Piece("2. continue regular monitoring"),
               Piece("3. report anomalies at once")>>

\* FiveW1HResponse(...) as process builds it
five_w1h_response(c, now) ==
    [who |-> extract_who(c), what |-> extract_what(c), where |-> extract_where(c),
     when |-> extract_when(c, now), why |-> extract_why(c), how |-> extract_how(c)]

\* _format_response: the heading and the six sections, then the review
format_response(response, c) ==
    <<Piece("## 5W1H analysis")>>
    \o <<Piece("### [WHO]")>> \o response.who
    \o <<Piece("### [WHAT]")>> \o response.what
    \o <<Piece("### [WHERE]")>> \o response.where
    \o <<Piece("### [WHEN]")>> \o response.when
    \o <<Piece("### [WHY]")>> \o response.why
    \o <<Piece("### [HOW]")>> \o response.how
    \o (IF has_base_fields(c) THEN <<Piece("### [REVIEW]")>> ELSE <<>>)

\* rows of the time-series store as the extractors see them
Rows == { <<>>,
          <<[tag_name |-> "D100", value |-> "number", stamp |-> "timestamp"]>>,
          <<[tag_name |-> "D101", value |-> "none", stamp |-> "latest_bucket"],
            [tag_name |-> "D100", value |-> "text", stamp |-> "none"]>>,
          <<[tag_name |-> "", value |-> "number", stamp |-> "none"]>> }
SensorRows == { <<>>,
                <<[tag_name |-> "D100", value |-> "number", stamp |-> "datetime"]>>,
                <<[tag_name |-> "D101", value |-> "number", stamp |-> "str"],
                  [tag_name |-> "D100", value |-> "none", stamp |-> "none"]>>,
                <<[tag_name |-> "", value |-> "none", stamp |-> "none"]>> }
\* AnalysisAgent appends a violation only for a value outside [min_val, max_val]
Violations == { <<>>,
                <<[tag_name |-> "D100", value |-> 30, min_val |-> 20, max_val |-> 25]>>,
                <<[tag_name |-> "D100", value |-> 190, min_val |-> 20, max_val |-> 25],
                  [tag_name |-> "D101", value |-> 1, min_val |-> 2, max_val |-> 9]>> }
FormatQueries == { {}, {"D100"}, {"d101", "1sigan"}, {"DAY"}, {"ju"} }
RawKeySets == { {}, {"all_sensors"}, {"dynamic_rag_data", "dynamic_rag_sql", "dynamic_rag_metadata"},
                {"dynamic_rag_sql"}, {"dynamic_rag_data"}, {"dynamic_rag_metadata"} }
MetaKeySets == { {}, {"view_used", "time_range"} }
Notes == { [keys |-> {}, knowledge |-> {}],
           [keys |-> {"sensor_data", "qc_rules"}, knowledge |-> {}],
           [keys |-> {"sensor_data", "domain_knowledge"}, knowledge |-> {}],
           [keys |-> {"domain_knowledge"}, knowledge |-> {"cooling", "temperature", "calibration"}] }
AnalysisResults == { {}, {"normal"}, {"warning_kw", "increase"}, {"CRITICAL", "unstable"} }

FormatContext(kind, query, raw_keys, rag_data, rag_meta, sensor_data, qc_violations,
              notes, analysis_result, time_range) ==
    [kind |-> kind, query |-> query, raw_keys |-> raw_keys, rag_data |-> rag_data,
     rag_meta |-> rag_meta, sensor_data |-> sensor_data, qc_violations |-> qc_violations,
     research_notes |-> notes.keys, knowledge |-> notes.knowledge,
     analysis_result |-> analysis_result, data_source |-> "TimescaleDB",
     view_used |-> time_range, time_range |-> time_range,
     structured_response |-> <<>>, five_w1h |-> <<>>]

\* an object without any attribute, the enhanced and the base AgentContext
BareContexts == {FormatContext("bare", {}, {}, <<>>, {}, <<>>, <<>>, [keys |-> {}, knowledge |-> {}], {}, "")}
EnhancedContexts ==
    {FormatContext("enhanced", q, ks, IF "dynamic_rag_data" \in ks THEN rows ELSE <<>>,
                   IF "dynamic_rag_metadata" \in ks THEN meta ELSE {},
                   <<>>, <<>>, [keys |-> {}, knowledge |-> {}], {}, "") :
        q \in FormatQueries, ks \in RawKeySets, rows \in Rows, meta \in MetaKeySets}
BaseContexts ==
    {FormatContext("base", q, {}, <<>>, {}, rows, v, notes, a, t) :
        q \in FormatQueries, rows \in SensorRows, v \in Violations, notes \in Notes,
        a \in AnalysisResults, t \in {"", "1 hour"}}

FwInit ==
    \E c \in BareContexts \cup EnhancedContexts \cup BaseContexts :
        fw = [pc |-> "idle", context |-> c, now |-> 0, responses |-> <<>>, at |-> <<>>]

FwFrame == UNCHANGED <<auditVars, learnVars, pipeVars, qcVars, ansVars, genVars, trVars, gaVars, hpVars,
                        chatVars>>

\* FiveW1HAgent.process: no await inside, one step.  responses and at are
\* ghosts: the FiveW1HResponse of every call and the second it was made in.
Process ==
    /\ fw.pc = "idle" /\ Len(fw.responses) < 2
    /\ \E response \in {five_w1h_response(fw.context, fw.now)} :
          fw' = [fw EXCEPT
                    !.context.structured_response = format_response(response, fw.context),
                    !.context.five_w1h = <<response>>,
                    !.responses = Append(@, response),
                    !.at = Append(@, fw.now)]
    /\ FwFrame

\* a second of wall-clock time passes
Tick ==
    /\ fw.pc = "idle" /\ fw.now < MaxClock
    /\ fw' = [fw EXCEPT !.now = @ + 1]
    /\ FwFrame

InitFormat ==
    /\ FwInit /\ au = AuditIdle /\ LearnIdle
    /\ pl = PipeOff /\ qc = QcOff /\ ans = AnsOff /\ gen = GenOff /\ tr = TrOff
    /\ ga = GaOff /\ hp = HpOff /\ chat = ChatOff

NextFormat == Process \/ Tick
SpecFormat == InitFormat /\ [][NextFormat]_vars

----------------------------------------------------------------------------
(* Claims on SpecFormat *)

Fields == {"who", "what", "where", "when", "why", "how"}
CalledTwice == Len(fw.responses) = 2

\* C23 as stated: two calls on the same context give the same six fields,
\* whatever time passes between them.
C23_SixFieldsIdentical ==
    CalledTwice => \A f \in Fields : fw.responses[1][f] = fw.responses[2][f]

\* C23, the part the code keeps: who, what, where, why and how are the same
\* in both calls, and when is the same exactly when both calls read the
\* clock within the same second.
C23_IdenticalButForClock ==
    CalledTwice =>
        /\ \A f \in Fields \ {"when"} : fw.responses[1][f] = fw.responses[2][f]
        /\ fw.responses[1].when = fw.responses[2].when <=> fw.at[1] = fw.at[2]
        /\ Tail(fw.responses[1].when) = Tail(fw.responses[2].when)

\* two calls a second apart on a base context with data
C23_Witness ==
    /\ CalledTwice /\ fw.at[1] # fw.at[2]
    /\ fw.context.kind = "base" /\ fw.context.sensor_data # <<>>
    /\ fw.responses[1].who = fw.responses[2].who
    /\ fw.responses[1].when # fw.responses[2].when

NoSupport(f) ==
    LET c == fw.context
        data == c.raw_keys \cap {"dynamic_rag_data", "dynamic_rag_sql", "dynamic_rag_metadata"} = {}
                /\ c.sensor_data = <<>> /\ c.qc_violations = <<>>
                /\ c.research_notes = {} /\ c.analysis_result = {}
    IN  data /\ (f = "where" => c.kind # "base") /\ (f = "when" => c.query = {} /\ c.kind # "base")

Placeholder(f) ==
    CASE f = "who" -> <<Piece("whole system")>>
      [] f = "what" -> <<Piece("collecting data")>>
      [] f = "where" -> <<Piece("TimescaleDB")>>
      [] f = "when" -> <<PieceAt("query time: %Y-%m-%d %H:%M:%S", fw.at[Len(fw.at)])>>
      [] f = "why" -> <<Piece("operating within normal range")>>
      [] f = "how" -> <<Piece("1. keep the current state"), Piece("2. continue regular monitoring"),
                        Piece("3. report anomalies at once")>>

----------------------------------------------------------------------------
(* SpecHallucination: HallucinationPrevention.validate_response and its    *)
(* numeric and contradiction checks (hallucination_prevention.py)          *)
(*                                                                         *)
(* A response text is either a list of sentences or a list of quantities.  *)
(* A sentence is: an optional subject keyword, a filler of `gap`           *)
(* characters holding none of the words looked for, some status words, and *)
(* the closing '.'.  Words: "normal" 정상 (2 characters), "abnormal" 비정상 *)
(* (3 characters, 정상 being its last two), "increase" 증가, "decrease" 감소, *)
(* subjects "sensor" 센서, "pressure" 압력, "temperature" 온도, "flow" 유량   *)
(* (2 characters each).  A quantity is a unit, a sign and a magnitude as   *)
(* written in the text ("pH: 15", "-5 bar", "25°C").  The checks that need *)
(* the knowledge base, the rule table, the context or other words of the   *)
(* text are an arbitrary set of failing checks.                            *)

MaxSentences == 2
MaxQuantities == 2

SubjectWords == {"sensor", "pressure", "temperature", "flow"}

width(word) == CASE word = "abnormal" -> 3 [] word = "." -> 1 [] OTHER -> 2

\* the text of one sentence, as words with their widths in characters
sentence_tokens(s) ==
    (IF s.subject # "" THEN <<[word |-> s.subject, width |-> width(s.subject)]>> ELSE <<>>)
    \o (IF s.gap > 0 THEN <<[word |-> "filler", width |-> s.gap]>> ELSE <<>>)
    \o [i \in 1..Len(s.words) |-> [word |-> s.words[i], width |-> width(s.words[i])]]
    \o <<[word |-> ".", width |-> 1]>>

RECURSIVE text_tokens(_)
text_tokens(sentences) ==
    IF sentences = <<>> THEN <<>>
    ELSE sentence_tokens(Head(sentences)) \o text_tokens(Tail(sentences))

RECURSIVE offset(_, _)
\* index of the first character of token i (0-based, as str.find counts)
offset(tokens, i) == IF i = 1 THEN 0 ELSE offset(tokens, i - 1) + tokens[i - 1].width

\* response.find(word) for '정상' and '비정상'; -1 when absent
find(tokens, word) ==
    LET hits == {offset(tokens, i) + (IF word = "normal" /\ tokens[i].word = "abnormal"
                                      THEN 1 ELSE 0) :
                    i \in {j \in 1..Len(tokens) :
                              \/ tokens[j].word = word
                              \/ word = "normal" /\ tokens[j].word = "abnormal"}}
    IN  IF hits = {} THEN 0 - 1 ELSE CHOOSE p \in hits : \A q \in hits : p <= q

\* `word in response[max(0, p - 30):p + 30]` for a subject keyword
in_context(tokens, word, p) ==
    \E i \in 1..Len(tokens) :
        /\ tokens[i].word = word
        /\ offset(tokens, i) >= Max(0, p - 30)
        /\ offset(tokens, i) + tokens[i].width <= p + 30

check_logical_contradictions_Mutant(sentences) ==
    IF \E i \in 1..Len(sentences) :
          \E j, k \in 1..Len(sentences[i].words) :
              sentences[i].words[j] = "increase" /\ sentences[i].words[k] = "decrease"
    THEN {"increase_decrease"} ELSE {}

\* _check_logical_contradictions: the contradictions it collects
check_logical_contradictions(sentences) ==
    LET tokens == text_tokens(sentences)
        normal_at == find(tokens, "normal")
        abnormal_at == find(tokens, "abnormal")
    IN  (IF \E i \in 1..Len(sentences) :
               \E j, k \in 1..Len(sentences[i].words) :
                   sentences[i].words[j] = "increase" /\ sentences[i].words[k] = "decrease"
         THEN {"increase_decrease"} ELSE {})
        \cup
        (IF /\ normal_at >= 0 /\ abnormal_at >= 0
            /\ \E word \in SubjectWords :
                  in_context(tokens, word, normal_at) /\ in_context(tokens, word, abnormal_at)
         THEN {"normal_abnormal"} ELSE {})

captured_Mutant(q) ==
    CASE q.unit = "pH" -> IF q.negative THEN {} ELSE {q.magnitude}
      [] OTHER -> {IF q.negative THEN 0 - q.magnitude ELSE q.magnitude}

\* the numbers the three regular expressions of _validate_numeric_consistency
\* capture from one quantity: '(-?\d+\.?\d*)\s*°C' takes the sign,
\* '(\d+\.?\d*)\s*bar' starts at the first digit, and
\* 'pH\s*[:=]?\s*(\d+\.?\d*)' needs a digit where a minus sign would stand
captured(q) ==
    CASE q.unit = "C" -> {IF q.negative THEN 0 - q.magnitude ELSE q.magnitude}
      [] q.unit = "bar" -> {q.magnitude}
      [] q.unit = "pH" -> IF q.negative THEN {} ELSE {q.magnitude}

\* the issues one quantity adds
quantity_issues(q) ==
    CASE q.unit = "C" ->
            {v \in captured(q) : 100 * v < 0 - 27315 \/ v > 1000}
      [] q.unit = "bar" ->
            {v \in captured(q) : v < 0 \/ v > 100}
      [] q.unit = "pH" ->
            {v \in captured(q) : v < 0 \/ v > 14}

validate_numeric_consistency_Mutant(quantities) ==
    LET n == Cardinality({i \in 1..Len(quantities) :
                             quantities[i].unit = "C" /\ quantity_issues(quantities[i]) # {}})
    IN  [is_valid |-> n = 0, n_issues |-> n]

\* _validate_numeric_consistency
validate_numeric_consistency(quantities) ==
    LET n == Cardinality({i \in 1..Len(quantities) : quantity_issues(quantities[i]) # {}})
    IN  [is_valid |-> n = 0, n_issues |-> n]

OtherChecks == {"knowledge_base", "sensor_range", "sensor_unit", "temporal", "certainty"}

Sentences ==
    [subject : {"", "sensor", "pressure"}, gap : {0, 30},
     words : {<<>>, <<"normal">>, <<"abnormal">>, <<"normal", "abnormal">>,
              <<"increase", "decrease">>}]

Quantities ==
    { [unit |-> "pH", negative |-> FALSE, magnitude |-> 15],
      [unit |-> "pH", negative |-> FALSE, magnitude |-> 14],
      [unit |-> "pH", negative |-> FALSE, magnitude |-> 7],
      [unit |-> "pH", negative |-> TRUE, magnitude |-> 1],
      [unit |-> "bar", negative |-> TRUE, magnitude |-> 5],
      [unit |-> "bar", negative |-> FALSE, magnitude |-> 5],
      [unit |-> "bar", negative |-> FALSE, magnitude |-> 150],
      [unit |-> "bar", negative |-> TRUE, magnitude |-> 150],
      [unit |-> "C", negative |-> FALSE, magnitude |-> 25],
      [unit |-> "C", negative |-> TRUE, magnitude |-> 300] }

SeqsUpTo(S, n) == UNION {[1..k -> S] : k \in 0..n}

HpIdle(sentences, quantities, others) ==
    [pc |-> "called", sentences |-> sentences, quantities |-> quantities,
     others |-> others, contradictions |-> {},
     numeric_check |-> [is_valid |-> TRUE, n_issues |-> 0],
     result |-> [is_valid |-> TRUE, n_issues |-> 0, confidence |-> ConfOne]]

HpInit ==
    \/ \E sentences \in SeqsUpTo(Sentences, MaxSentences) :
          hp = HpIdle(sentences, <<>>, {})
    \/ \E quantities \in SeqsUpTo(Quantities, MaxQuantities), others \in SUBSET OtherChecks :
          hp = HpIdle(<<>>, quantities, others)

HpFrame == UNCHANGED <<auditVars, learnVars, pipeVars, qcVars, ansVars, genVars, trVars, gaVars, fwVars,
                        chatVars>>

\* HallucinationPrevention.validate_response, lines 63-132
ValidateResponse ==
    /\ hp.pc = "called"
    /\ \E numeric_check \in {validate_numeric_consistency(hp.quantities)},
          contradictions \in {check_logical_contradictions(hp.sentences)} :
          LET failing == hp.others
                         \cup (IF numeric_check.is_valid THEN {} ELSE {"numeric"})
                         \cup (IF contradictions # {} THEN {"logic"} ELSE {})
              n_extra == IF numeric_check.is_valid THEN 0 ELSE numeric_check.n_issues - 1
          IN  hp' = [hp EXCEPT !.pc = "returned",
                               !.numeric_check = numeric_check,
                               !.contradictions = contradictions,
                               !.result = validate_response(failing, n_extra)]
    /\ HpFrame

InitHallucination ==
    /\ HpInit /\ au = AuditIdle /\ LearnIdle
    /\ pl = PipeOff /\ qc = QcOff /\ ans = AnsOff /\ gen = GenOff /\ tr = TrOff
    /\ ga = GaOff /\ fw = FwOff /\ chat = ChatOff

NextHallucination == ValidateResponse
SpecHallucination == InitHallucination /\ [][NextHallucination]_vars

----------------------------------------------------------------------------
(* Claims on SpecHallucination *)

Validated == hp.pc = "returned"
HasWord(s, word) == \E j \in 1..Len(s.words) : s.words[j] = word
Says(word) == \E i \in 1..Len(hp.sentences) : HasWord(hp.sentences[i], word)
BothInOneSentence(i) ==
    /\ HasWord(hp.sentences[i], "normal") /\ HasWord(hp.sentences[i], "abnormal")
    /\ hp.sentences[i].subject # ""
\* the two words stand in different sentences that have different subjects
InUnrelatedSentences ==
    /\ \A i \in 1..Len(hp.sentences) :
          ~(HasWord(hp.sentences[i], "normal") /\ HasWord(hp.sentences[i], "abnormal"))
    /\ \E i, j \in 1..Len(hp.sentences) :
          /\ HasWord(hp.sentences[i], "normal") /\ HasWord(hp.sentences[j], "abnormal")
          /\ hp.sentences[i].subject # "" /\ hp.sentences[j].subject # ""
    /\ \A i, j \in 1..Len(hp.sentences) :
          i # j => hp.sentences[i].subject # hp.sentences[j].subject

\* C25 as stated: a sentence with both words about one subject keyword
\* raises the contradiction; the two words in unrelated sentences about
\* different subjects do not.
C25_ContradictionBySentenceAndSubject ==
    Validated =>
        /\ (\E i \in 1..Len(hp.sentences) : BothInOneSentence(i))
               => "normal_abnormal" \in hp.contradictions
        /\ InUnrelatedSentences => "normal_abnormal" \notin hp.contradictions

\* C25, the part the code keeps: the contradiction is raised for a lone
\* sentence that has the subject keyword and both words within 30
\* characters, it is never raised without the word "abnormal" or without a
\* subject keyword in the text, and a raised contradiction makes the
\* response invalid.
C25_NearbyWordsRaiseContradiction ==
    Validated =>
        /\ (Len(hp.sentences) = 1 /\ BothInOneSentence(1) /\ hp.sentences[1].gap = 0)
               => "normal_abnormal" \in hp.contradictions
        /\ "normal_abnormal" \in hp.contradictions
               => /\ Says("abnormal")
                  /\ \E i \in 1..Len(hp.sentences) : hp.sentences[i].subject # ""
        /\ hp.contradictions # {} => ~hp.result.is_valid /\ hp.result.confidence < ConfOne

C25_Witness ==
    /\ Validated /\ Len(hp.sentences) = 1 /\ BothInOneSentence(1)
    /\ hp.sentences[1].gap = 0
    /\ hp.contradictions = {"normal_abnormal"} /\ ~hp.result.is_valid

Quotes(unit) == {hp.quantities[i] : i \in {j \in 1..Len(hp.quantities) : hp.quantities[j].unit = unit}}

\* C26 as stated: a text quoting a pH value outside 0-14 ("pH: 15") is
\* invalid with confidence below 1.0, whatever the other checks find.
C26_PhOutsideRangeFlagged ==
    Validated =>
        ((\E q \in Quotes("pH") : q.negative \/ q.magnitude > 14)
            => ~hp.result.is_valid /\ hp.result.confidence < ConfOne)

\* C26, the part the code keeps: a text quoting a pH value above 14
\* ("pH: 15") is invalid with confidence at most 0.7, whatever the other
\* checks find.
C26_PhAboveRangeFlagged ==
    Validated =>
        ((\E q \in Quotes("pH") : ~q.negative /\ q.magnitude > 14)
            => /\ ~hp.result.is_valid
               /\ hp.result.confidence < ConfOne
               /\ 10 * hp.result.confidence <= 7 * ConfOne
               /\ ~hp.numeric_check.is_valid)

C26_Witness ==
    /\ Validated /\ hp.others = {}
    /\ hp.quantities = <<[unit |-> "pH", negative |-> FALSE, magnitude |-> 15]>>
    /\ ~hp.result.is_valid /\ 10 * hp.result.confidence = 7 * ConfOne

\* C27 as stated: a text quoting a negative pressure ("-5 bar") is invalid.
C27_NegativePressureFlagged ==
    Validated => ((\E q \in Quotes("bar") : q.negative) => ~hp.result.is_valid)

\* C27, the part the code keeps: a quoted pressure is judged by its
\* magnitude alone; above 100 bar it makes the response invalid.
C27_PressureAboveLimitFlagged ==
    Validated =>
        /\ (\E q \in Quotes("bar") : q.magnitude > 100) => ~hp.result.is_valid
        /\ (hp.others = {} /\ hp.contradictions = {}
             /\ \A i \in 1..Len(hp.quantities) :
                    hp.quantities[i].unit = "bar" /\ hp.quantities[i].magnitude <= 100)
               => hp.result.is_valid

\* "-5 bar" alone: valid, full confidence
C27_Witness ==
    /\ Validated /\ hp.others = {}
    /\ hp.quantities = <<[unit |-> "bar", negative |-> TRUE, magnitude |-> 5]>>
    /\ hp.result.is_valid /\ hp.result.confidence = ConfOne

----------------------------------------------------------------------------
(* SpecChat: AIState (states/cps_only/ai_state.py) and its send_message     *)
(* background event handler.  A background handler runs as its own asyncio  *)
(* task; it reads the state freely and modifies it only inside              *)
(* `async with self`, which is atomic with respect to the other handlers.   *)
(* Between two such blocks, and at every await of a service call, another   *)
(* handler may run: each block and each awaited call is one action.         *)
(* A text is a sequence of pieces: " " (white space), "w" (a word) and      *)
(* "D100" (a sensor id).  Ghost fields: by (the task that appended a        *)
(* message), appended (every append to messages, kept across clear_chat),   *)
(* failed (the call that raised in a task).  Tasks are numbered in the      *)
(* order in which their events arrive.  Timestamps are left out.            *)

MaxSends == 2       \* send_message events in one behaviour

Senders == 1..MaxSends

Typed == { <<>>, <<" ">>, <<" ", "w">>, <<"D100", " ">> }

\* str.strip
RECURSIVE strip(_)
strip(s) ==
    IF s = <<>> THEN s
    ELSE IF Head(s) = " " THEN strip(Tail(s))
    ELSE IF s[Len(s)] = " " THEN strip(SubSeq(s, 1, Len(s) - 1))
    ELSE s

\* AIState._extract_sensor_id: the first D<3 digits> word of the query
extract_sensor_id(query) ==
    IF \E i \in 1..Len(query) : query[i] = "D100" THEN "D100" ELSE "none"

NoTask == [at |-> "idle", query |-> <<>>, sensor_id |-> "none", failed |-> "no"]

ChatInit ==
    chat = [pc |-> "on", messages |-> <<>>, current_query |-> <<>>, typing |-> FALSE,
            sensor_context |-> "none", task |-> [t \in Senders |-> NoTask],
            appended |-> <<>>]

\* self.messages.append(message), by task t
append_message(c, t, text, is_ai) ==
    [c EXCEPT !.messages = Append(c.messages, [text |-> text, is_ai |-> is_ai, by |-> t]),
              !.appended = Append(c.appended, [text |-> text, is_ai |-> is_ai, by |-> t])]

\* lines 101-103: the query is read before the first `async with self`
read_query(c, t) ==
    LET query == strip(c.current_query)
    IN  IF query = <<>>
        THEN [c EXCEPT !.task[t].at = "returned"]
        ELSE [c EXCEPT !.task[t].at = "entered", !.task[t].query = query]

\* lines 108-115 and 119: the first block, then the sensor id of the query
add_user_message(c, t) ==
    LET d == append_message(c, t, c.task[t].query, FALSE)
        sensor_id == extract_sensor_id(c.task[t].query)
    IN  [d EXCEPT !.typing = TRUE, !.current_query = <<>>,
                  !.task[t].sensor_id = sensor_id,
                  !.task[t].at = IF sensor_id # "none" THEN "lookup" ELSE "generate"]

\* an awaited call of the try block raises: control goes to the except clause
raised(c, t, step) ==
    [c EXCEPT !.task[t].at = "except", !.task[t].failed = step]

\* a handler that resets the flag only when the answer was appended
finally_block_Mutant(c, t) ==
    [c EXCEPT !.typing = IF c.task[t].failed = "no" THEN FALSE ELSE c.typing,
              !.task[t].at = "returned"]

\* lines 163-165: finally
finally_block(c, t) ==
    [c EXCEPT !.typing = FALSE, !.task[t].at = "returned"]

ChatFrame == UNCHANGED <<auditVars, learnVars, pipeVars, qcVars, ansVars, genVars, trVars,
                         gaVars, fwVars, hpVars>>

\* the text field is edited (the setter of current_query)
set_current_query(text) ==
    /\ chat.current_query # text
    /\ chat' = [chat EXCEPT !.current_query = text]
    /\ ChatFrame

\* AIState.clear_chat
clear_chat ==
    /\ chat.messages # <<>> \/ chat.sensor_context # "none"
    /\ chat' = [chat EXCEPT !.messages = <<>>, !.sensor_context = "none"]
    /\ ChatFrame

\* a send_message event starts its task, up to the first `async with self`
send_message(t) ==
    /\ chat.task[t].at = "idle"
    /\ \A u \in 1..(t - 1) : chat.task[u].at # "idle"
    /\ chat' = read_query(chat, t)
    /\ ChatFrame

AddUserMessage(t) ==
    /\ chat.task[t].at = "entered"
    /\ chat' = add_user_message(chat, t)
    /\ ChatFrame

\* lines 122-126: service.get_sensor_context returns or raises
GetSensorContext(t, ok) ==
    /\ chat.task[t].at = "lookup"
    /\ chat' = IF ok THEN [chat EXCEPT !.task[t].at = "store"]
               ELSE raised(chat, t, "context")
    /\ ChatFrame

\* lines 128-129
StoreSensorContext(t) ==
    /\ chat.task[t].at = "store"
    /\ chat' = [chat EXCEPT !.sensor_context = chat.task[t].sensor_id,
                            !.task[t].at = "generate"]
    /\ ChatFrame

\* lines 132-133: get_rag_response returns or raises
GetRagResponse(t, ok) ==
    /\ chat.task[t].at = "generate"
    /\ chat' = IF ok THEN [chat EXCEPT !.task[t].at = "save"]
               ELSE raised(chat, t, "generation")
    /\ ChatFrame

\* lines 136-142: service.save_chat_history returns or raises
SaveChatHistory(t, ok) ==
    /\ chat.task[t].at = "save"
    /\ chat' = IF ok THEN [chat EXCEPT !.task[t].at = "answer"]
               ELSE raised(chat, t, "saving")
    /\ ChatFrame

\* lines 145-151: the answer is appended
AddAiResponse(t) ==
    /\ chat.task[t].at = "answer"
    /\ chat' = [append_message(chat, t, <<"answer">>, TRUE) EXCEPT !.task[t].at = "finally"]
    /\ ChatFrame

\* lines 155-162: the except clause appends the apology
AddApology(t) ==
    /\ chat.task[t].at = "except"
    /\ chat' = [append_message(chat, t, <<"apology">>, TRUE) EXCEPT !.task[t].at = "finally"]
    /\ ChatFrame

Finally(t) ==
    /\ chat.task[t].at = "finally"
    /\ chat' = finally_block(chat, t)
    /\ ChatFrame

InitChat ==
    /\ ChatInit /\ au = AuditIdle /\ LearnIdle
    /\ pl = PipeOff /\ qc = QcOff /\ ans = AnsOff /\ gen = GenOff /\ tr = TrOff
    /\ ga = GaOff /\ fw = FwOff /\ hp = HpOff

NextChat ==
    \/ \E text \in Typed : set_current_query(text)
    \/ clear_chat
    \/ \E t \in Senders : send_message(t)
    \/ \E t \in Senders : AddUserMessage(t)
    \/ \E t \in Senders, ok \in BOOLEAN : GetSensorContext(t, ok)
    \/ \E t \in Senders : StoreSensorContext(t)
    \/ \E t \in Senders, ok \in BOOLEAN : GetRagResponse(t, ok)
    \/ \E t \in Senders, ok \in BOOLEAN : SaveChatHistory(t, ok)
    \/ \E t \in Senders : AddAiResponse(t)
    \/ \E t \in Senders : AddApology(t)
    \/ \E t \in Senders : Finally(t)

SpecChat == InitChat /\ [][NextChat]_vars

----------------------------------------------------------------------------
\* the places of chat.appended where task t appended a user / an AI message
AppendsOf(t, is_ai) ==
    {i \in 1..Len(chat.appended) :
        chat.appended[i].by = t /\ chat.appended[i].is_ai = is_ai}

InFlight(t) == chat.task[t].at \notin {"idle", "returned"}
Finished(t) == chat.task[t].at = "returned"
\* the query of the task, as read and stripped on line 101, is not empty
NonEmptyQuery(t) == chat.task[t].query # <<>>

\* what task t has appended so far
AppendsOfTask(t) ==
    LET at == chat.task[t].at
        user == AppendsOf(t, FALSE)
        ai == AppendsOf(t, TRUE)
    IN  /\ Cardinality(user) =
              IF at \in {"idle", "entered"} \/ ~NonEmptyQuery(t) THEN 0 ELSE 1
        /\ Cardinality(ai) = IF at \in {"finally", "returned"} /\ NonEmptyQuery(t)
                             THEN 1 ELSE 0
        /\ \A i \in user : chat.appended[i].text = chat.task[t].query
        /\ \A i \in user, j \in ai : i < j
        /\ \A j \in ai :
              chat.appended[j].text =
                 IF chat.task[t].failed = "no" THEN <<"answer">> ELSE <<"apology">>

\* a step changes messages by one append or by clearing it
OneAppendPerStep ==
    \/ chat'.messages = chat.messages
    \/ chat'.messages = <<>>
    \/ /\ Len(chat'.messages) = Len(chat.messages) + 1
       /\ SubSeq(chat'.messages, 1, Len(chat.messages)) = chat.messages
       /\ chat'.appended = Append(chat.appended, chat'.messages[Len(chat'.messages)])

(* C30: under every interleaving of concurrent send_message tasks, a task   *)
(* that read a non-empty query appends exactly one user message and, later, *)
(* exactly one AI message (the answer, or the apology when the context      *)
(* lookup, the answer generation or the saving of the history raised), a    *)
(* task that read an empty query appends nothing, and when no task is in    *)
(* flight the typing flag is false.                                         *)
C30_OneUserOneAiMessageTypingOff ==
    /\ [](\A t \in Senders : AppendsOfTask(t))
    /\ []((\A t \in Senders : ~InFlight(t)) => ~chat.typing)
    /\ [][OneAppendPerStep]_vars

C30_Witness ==
    /\ \A t \in Senders : Finished(t) /\ NonEmptyQuery(t)
    /\ ~chat.typing
    /\ Len(chat.appended) = 4
    /\ chat.appended[1].by = 1 /\ chat.appended[2].by = 2
    /\ chat.appended[3].by = 2 /\ chat.appended[4].by = 1
    /\ chat.task[1].failed = "saving" /\ chat.task[2].failed = "no"

============================================================================
